---- MODULE Spec2Model ----
(***************************************************************************)
(* A model of the weaverfi query and normalisation engine:                 *)
(*   - query: the failover executor (functions.ts, query)                  *)
(*   - multicallQuery and its three demultiplexing variants                *)
(*   - the token build operations addNativeToken, addToken, addDebtToken,  *)
(*     addXToken and addLPToken                                            *)
(*   - the adapters' get(wallet) and their fan-out over markets / pools    *)
(*   - getWalletBalance, getProjectBalance, getMarketBalancesV3 with       *)
(*     getIncentivesV3, and fetchPoolIDsFromFactory (updates.ts)           *)
(* Each component keeps its state in one record variable; a specification  *)
(* per component runs that component and leaves the others idle.  The      *)
(* section of a component says which variables hold its frames.            *)
(*                                                                         *)
(* Addresses are abbreviated to their first two hex digits after "0x",     *)
(* kept as sequences of characters so that letter case is modelled.        *)
(***************************************************************************)
EXTENDS Integers, Sequences, FiniteSets, TLC

VARIABLES chains, q, mc, tk, fo, g

vars == <<chains, q, mc, tk, fo, g>>

-----------------------------------------------------------------------------
(* Bounds of the model *)

\* the largest number of RPC endpoints a chain of the registry has
MaxRpcs == 2
\* how many falsy (false, 0, '', null) successful answers one query may receive
MaxFalsy == 2

-----------------------------------------------------------------------------
(* Constants of the program *)

maxQueryRetries == 3

\* '0xeeeeeeeeeeeeeeeeeeeeeeeeeeeeeeeeeeeeeeee'
defaultAddress == <<"e", "e">>

defaultTokenLogo == "generic.png"

\* the chains of the registry that the model runs
Chains == {"poly", "avax"}

\* String.prototype.toLowerCase, character by character
LowerChar(c) ==
  CASE c = "A" -> "a"
    [] c = "B" -> "b"
    [] c = "C" -> "c"
    [] c = "D" -> "d"
    [] c = "E" -> "e"
    [] c = "F" -> "f"
    [] OTHER -> c

toLowerCase(s) == [i \in DOMAIN s |-> LowerChar(s[i])]

\* QuickSwap Registry 0x8aaa..., QuickSwap Dual Rewards Registry 0x9dd1...
ignoredErrors ==
  { [chain |-> "poly", address |-> <<"8", "a">>],
    [chain |-> "poly", address |-> <<"9", "d">>] }

\* JavaScript truthiness of the values a contract method may resolve to;
\* "undefined" is the value of a variable never assigned
Falsy == {"undefined", "false", "zero", "empty", "null"}

Truthy(v) == v \notin Falsy

-----------------------------------------------------------------------------
(* query: the failover executor *)

\* the contract addresses the model queries, in several letter cases
QueryAddresses == { <<"8", "a">>, <<"8", "A">>, <<"9", "d">>, <<"c", "F">> }

\* the (method, args) pairs the model queries
QueryCalls ==
  { [method |-> "balanceOf", args |-> <<"wallet">>],
    [method |-> "symbol", args |-> <<>>] }

\* what one attempt may resolve to when it does not fail
QueryValues == {"value", "false", "zero", "empty", "null"}

NoError == [kind |-> "none"]

QueryIdle == [pc |-> "idle"]

IsIgnoredCaseSensitive(chain, address) ==
  \E i \in ignoredErrors : i.chain = chain /\ i.address = address

\* i => i.chain === chain && i.address === address.toLowerCase()
IsIgnored(chain, address) ==
  \E i \in ignoredErrors : i.chain = chain /\ i.address = toLowerCase(address)

\* new WeaverError(chain, null, `Querying ${method}(${args}) on ${address}`)
QueryError(s) ==
  [kind |-> "WeaverError", chain |-> s.chain, method |-> s.method,
   args |-> s.args, address |-> s.address]

\* let result; let errors = 0; let rpcID = 0;
QueryBegin(chain, address, call) ==
  [pc |-> "loop", chain |-> chain, address |-> address,
   method |-> call.method, args |-> call.args,
   result |-> "undefined", errors |-> 0, rpcID |-> 0,
   tried |-> <<>>, oks |-> 0, falsy |-> 0, error |-> NoError]

\* while(!result && errors < maxQueryRetries) ... return result
QueryLoopTest(s) ==
  IF ~Truthy(s.result) /\ s.errors < maxQueryRetries
    THEN [s EXCEPT !.pc = "loop"]
    ELSE [s EXCEPT !.pc = "returned"]

\* result = await contract[method](...args) resolves to v
QueryOnSuccess(s, v) ==
  QueryLoopTest([s EXCEPT !.result = v,
                          !.tried = Append(@, s.rpcID),
                          !.oks = @ + 1,
                          !.falsy = IF Truthy(v) THEN @ ELSE @ + 1])

\* the catch block: the attempt on endpoint rpcID failed
QueryOnFailureOffByOne(s, k) ==
  LET t == [s EXCEPT !.tried = Append(@, s.rpcID), !.rpcID = @ + 1] IN
  IF t.rpcID >= k
    THEN LET u == [t EXCEPT !.errors = @ + 1] IN
         IF u.errors > maxQueryRetries
           THEN IF ~IsIgnored(u.chain, u.address)
                  THEN [u EXCEPT !.pc = "raised", !.error = QueryError(u)]
                  ELSE QueryLoopTest(u)
           ELSE QueryLoopTest([u EXCEPT !.rpcID = 0])
    ELSE QueryLoopTest(t)

QueryOnFailureNoSuppression(s, k) ==
  LET t == [s EXCEPT !.tried = Append(@, s.rpcID), !.rpcID = @ + 1] IN
  IF t.rpcID >= k
    THEN LET u == [t EXCEPT !.errors = @ + 1] IN
         IF u.errors >= maxQueryRetries
           THEN [u EXCEPT !.pc = "raised", !.error = QueryError(u)]
           ELSE QueryLoopTest([u EXCEPT !.rpcID = 0])
    ELSE QueryLoopTest(t)

QueryOnFailure(s, k) ==
  LET t == [s EXCEPT !.tried = Append(@, s.rpcID), !.rpcID = @ + 1] IN
  IF t.rpcID >= k
    THEN LET u == [t EXCEPT !.errors = @ + 1] IN
         IF u.errors >= maxQueryRetries
           THEN IF ~IsIgnored(u.chain, u.address)
                  THEN [u EXCEPT !.pc = "raised", !.error = QueryError(u)]
                  ELSE QueryLoopTest(u)
           ELSE QueryLoopTest([u EXCEPT !.rpcID = 0])
    ELSE QueryLoopTest(t)

\* a caller invokes query(chain, address, abi, method, args)
QueryStart(chain, address, call) ==
  /\ q.pc = "idle"
  /\ q' = QueryBegin(chain, address, call)
  /\ UNCHANGED <<chains, mc, tk, fo, g>>

\* the attempt on chains[chain].rpcs[rpcID] resolves
QueryAttemptOk(v) ==
  /\ q.pc = "loop"
  /\ Truthy(v) \/ q.falsy < MaxFalsy
  /\ q' = QueryOnSuccess(q, v)
  /\ UNCHANGED <<chains, mc, tk, fo, g>>

\* the attempt on chains[chain].rpcs[rpcID] throws
QueryAttemptFail ==
  /\ q.pc = "loop"
  /\ q' = QueryOnFailure(q, chains[q.chain])
  /\ UNCHANGED <<chains, mc, tk, fo, g>>

Idle == [pc |-> "idle"]

\* the registry gives every chain between 1 and MaxRpcs endpoints
InitChains == chains \in [Chains -> 1..MaxRpcs]

InitQuery ==
  /\ InitChains
  /\ q = QueryIdle
  /\ mc = Idle /\ tk = Idle /\ fo = Idle /\ g = Idle

NextQuery ==
  \/ \E c \in Chains, a \in QueryAddresses, m \in QueryCalls : QueryStart(c, a, m)
  \/ \E v \in QueryValues : QueryAttemptOk(v)
  \/ QueryAttemptFail

SpecQuery == InitQuery /\ [][NextQuery]_vars

-----------------------------------------------------------------------------
(* Claims about query *)

\* the attempts made so far, and the worst case k * r
Attempts == Len(q.tried)

WorstCase == chains[q.chain] * maxQueryRetries

\* C1: when every attempt fails and (chain, address) is not suppressed, query
\* raises after exactly k * r attempts, never earlier and never later, and the
\* error carries the chain, the method name, the arguments and the address.
C1_ExactAttemptsThenRaise ==
  (q.pc # "idle" /\ q.oks = 0 /\ ~IsIgnored(q.chain, q.address)) =>
     /\ Attempts <= WorstCase
     /\ (q.pc = "raised") <=> (Attempts = WorstCase)
     /\ q.pc \in {"loop", "raised"}
     /\ q.pc = "raised" =>
          /\ q.error.kind = "WeaverError"
          /\ q.error.chain = q.chain /\ q.error.method = q.method
          /\ q.error.args = q.args /\ q.error.address = q.address

C1_Witness ==
  /\ q.pc = "raised" /\ q.oks = 0 /\ chains[q.chain] = MaxRpcs
  /\ Attempts = MaxRpcs * maxQueryRetries

\* C2: when (chain, address) is suppressed, in any letter case of the address,
\* and every attempt fails, query makes the same k * r attempts and then
\* returns the absent result without raising.
C2_SuppressedReturnsAbsent ==
  (q.pc # "idle" /\ q.oks = 0 /\ IsIgnored(q.chain, q.address)) =>
     /\ Attempts <= WorstCase
     /\ q.pc \in {"loop", "returned"}
     /\ (q.pc = "returned") <=> (Attempts = WorstCase)
     /\ q.error = NoError
     /\ q.result = "undefined"

C2_Witness ==
  /\ q.pc = "returned" /\ q.oks = 0
  /\ q.chain = "poly" /\ q.address = <<"8", "a">>
  /\ Attempts = chains["poly"] * maxQueryRetries

\* C3 (as claimed): once one attempt has completed without failure, whatever
\* its value, query has returned that value and attempts nothing more.
C3_StopOnFirstSuccess ==
  (q.pc # "idle" /\ q.oks >= 1) => (q.pc = "returned" /\ q.oks = 1)

\* String.prototype.toUpperCase, character by character
UpperChar(c) ==
  CASE c = "a" -> "A"
    [] c = "b" -> "B"
    [] c = "c" -> "C"
    [] c = "d" -> "D"
    [] c = "e" -> "E"
    [] c = "f" -> "F"
    [] OTHER -> c

\* every way of writing the address with each hex letter in upper or lower case
\* the hex digits that differ from c in letter case at most
CharForms(c) ==
  { d \in {"0", "1", "2", "3", "4", "5", "6", "7", "8", "9", "a", "b", "c", "d", "e", "f",
            "A", "B", "C", "D", "E", "F"} : UpperChar(d) = UpperChar(c) }

CaseForms(address) ==
  { s \in [DOMAIN address -> UNION { CharForms(address[i]) : i \in DOMAIN address }] :
      \A i \in DOMAIN address : s[i] \in CharForms(address[i]) }

\* C18 (as claimed): the n-th attempt (from 0) targets endpoint n mod k, an
\* attempt is made only after every earlier one has failed, and the pass
\* counter is the number of times the cursor has passed the last endpoint.
C18_AttemptsFollowCursor ==
  q.pc # "idle" =>
     LET k == chains[q.chain] IN
     /\ \A n \in 0..(Attempts - 1) : q.tried[n + 1] = n % k
     /\ q.oks <= 1
     /\ q.oks = 1 => q.pc = "returned"
     /\ q.errors = (Attempts - q.oks) \div k
     /\ q.pc = "loop" => q.rpcID = Attempts % k

-----------------------------------------------------------------------------
(* Concurrent queries.  The branches of an adapter's fan-out each await    *)
(* their own query; the calls interleave at their network round trips.     *)
(* q.calls holds the frame of every call in flight, q.outcomes what each   *)
(* call's attempts resolved to, in order.                                  *)

ConcurrentOnFailureSharedCursor(s, i, k) ==
  LET mine == QueryOnFailure(s.calls[i], k) IN
  [s EXCEPT !.calls = [j \in DOMAIN s.calls |->
                         IF j = i THEN mine
                         ELSE IF s.calls[j].pc = "loop"
                           THEN [s.calls[j] EXCEPT !.rpcID = mine.rpcID, !.errors = mine.errors]
                           ELSE s.calls[j]],
            !.outcomes[i] = Append(@, "failed")]

\* an attempt of call i throws: rpcID and errors are locals of call i
ConcurrentOnFailure(s, i, k) ==
  [s EXCEPT !.calls[i] = QueryOnFailure(@, k), !.outcomes[i] = Append(@, "failed")]

\* Promise.all over two branches: both calls start before either one's first
\* attempt completes
ConcurrentStart(a, b) ==
  /\ q.pc = "idle"
  /\ q' = [pc |-> "concurrent",
           calls |-> << QueryBegin(a.chain, a.address, a.call),
                        QueryBegin(b.chain, b.address, b.call) >>,
           outcomes |-> << << >>, << >> >>]
  /\ UNCHANGED <<chains, mc, tk, fo, g>>

\* an attempt of call i resolves to v: only the locals of call i change
ConcurrentAttemptOk(i, v) ==
  /\ q.pc = "concurrent"
  /\ q.calls[i].pc = "loop"
  /\ q' = [q EXCEPT !.calls[i] = QueryOnSuccess(@, v), !.outcomes[i] = Append(@, v)]
  /\ UNCHANGED <<chains, mc, tk, fo, g>>

ConcurrentAttemptFail(i) ==
  /\ q.pc = "concurrent"
  /\ q.calls[i].pc = "loop"
  /\ q' = ConcurrentOnFailure(q, i, chains[q.calls[i].chain])
  /\ UNCHANGED <<chains, mc, tk, fo, g>>

NextConcurrent ==
  \* two balanceOf calls, each to the suppressed 0x8a... or to 0xcF... on a chain;
  \* an attempt that does not fail resolves to a truthy value (the repetition
  \* after a falsy answer is left to the specification of one query)
  \/ \E c1 \in Chains, c2 \in Chains :
       \E a1 \in { <<"8", "a">>, <<"c", "F">> }, a2 \in { <<"8", "a">>, <<"c", "F">> } :
          LET call == [method |-> "balanceOf", args |-> <<"wallet">>] IN
          ConcurrentStart([chain |-> c1, address |-> a1, call |-> call],
                          [chain |-> c2, address |-> a2, call |-> call])
  \/ \E i \in {1, 2} : ConcurrentAttemptOk(i, "value")
  \/ \E i \in {1, 2} : ConcurrentAttemptFail(i)

SpecConcurrent == InitQuery /\ [][NextConcurrent]_vars

\* the frame a call reaches when it runs alone and its attempts resolve to outcomes
RECURSIVE Alone(_, _, _)
Alone(s, k, outcomes) ==
  IF outcomes = << >> THEN s
  ELSE LET t == IF Head(outcomes) = "failed" THEN QueryOnFailure(s, k)
                                           ELSE QueryOnSuccess(s, Head(outcomes)) IN
       Alone(t, k, Tail(outcomes))

\* C19: every call in flight keeps its own cursor and pass counter: its frame
\* (endpoints tried, cursor, pass counter, result or error) is the one the
\* call reaches alone from the outcomes of its own attempts, whatever the
\* other call's attempts did in between.
C19_RetryStateOwnedByCall ==
  q.pc = "concurrent" =>
     \A i \in DOMAIN q.calls :
        LET c == q.calls[i] IN
        c = Alone(QueryBegin(c.chain, c.address, [method |-> c.method, args |-> c.args]),
                  chains[c.chain], q.outcomes[i])

\* both calls in flight on one chain, the first on endpoint 1 of its first
\* pass, the second back on endpoint 0 in its second pass
C19_Witness ==
  /\ q.pc = "concurrent"
  /\ q.calls[1].chain = q.calls[2].chain
  /\ q.calls[1].pc = "loop" /\ q.calls[2].pc = "loop"
  /\ q.calls[1].tried = <<0>> /\ q.calls[1].rpcID = 1 /\ q.calls[1].errors = 0
  /\ q.calls[2].tried = <<0, 1>> /\ q.calls[2].rpcID = 0 /\ q.calls[2].errors = 1

-----------------------------------------------------------------------------
(* multicallQuery and the three batch variants *)

\* the most contracts and the most calls one batch of the model carries
MaxContracts == 2
MaxCalls == 3

\* contract addresses a batch may target (0xB31f..., 0xcF84..., 0x57..., 0xd5...)
BatchAddresses == << <<"B", "3">>, <<"c", "F">>, <<"5", "7">>, <<"d", "5">> >>

\* the references of lpCalls, in their order
CallRefs == <<"symbol", "decimals", "reserves", "totalSupply", "token0", "token1">>

Min(a, b) == IF a < b THEN a ELSE b

Prefixes(seq, n) == { SubSeq(seq, 1, i) : i \in 1..Min(n, Len(seq)) }

\* { reference, methodName, methodParameters }
CallContext(ref) == [reference |-> ref, methodName |-> ref]

EmptyMap == << >>

\* results[k] = v
PutKey(m, k, v) == [x \in DOMAIN m \cup {k} |-> IF x = k THEN v ELSE m[x]]

\* contracts.forEach(contract => queries.push({ reference: contract, contractAddress: contract, abi, calls }))
ContractQueries(contracts, calls) ==
  [i \in DOMAIN contracts |->
     [reference |-> contracts[i], contractAddress |-> contracts[i], calls |-> calls]]

\* the queries each variant hands to multicallQuery
BatchQueries(shape, contracts, calls) ==
  CASE shape = "oneMethod" ->
         ContractQueries(contracts, << [reference |-> "", methodName |-> calls[1].methodName] >>)
    [] shape = "oneContract" ->
         << [reference |-> "oneContractQuery", contractAddress |-> contracts[1], calls |-> calls] >>
    [] shape = "complex" -> ContractQueries(contracts, calls)

\* the per-call success flags the helper contract may report for a batch of
\* nq queries of nc calls each (tryAggregate: true)
BatchFlags(nq, nc) == [1..nq -> [1..nc -> BOOLEAN]]

\* callsReturnContext of one query: { reference, success, returnValues } per call
CallsReturnContext(calls, f) ==
  [j \in DOMAIN calls |->
     [reference |-> calls[j].reference, success |-> f[j],
      returnValues |-> IF f[j] THEN <<"ret">> ELSE << >>]]

\* ContractCallResults.results, keyed by the queries' references
ContractCallResults(queries, flags) ==
  [r \in {queries[i].reference : i \in DOMAIN queries} |->
     LET i == CHOOSE i \in DOMAIN queries : queries[i].reference = r IN
     [callsReturnContext |-> CallsReturnContext(queries[i].calls, flags[i])]]

RECURSIVE OneMethodResults(_, _)
RECURSIVE OneContractFold(_)
RECURSIVE OneContractFoldNoFlag(_)
RECURSIVE ComplexInner(_)
RECURSIVE ComplexResults(_, _)

\* contracts.forEach(contract => { if(contractResults && contractResults.success) results[contract] = ... })
OneMethodResults(contracts, res) ==
  IF contracts = << >> THEN EmptyMap
  ELSE LET n == Len(contracts)
           results == OneMethodResults(SubSeq(contracts, 1, n - 1), res)
           contractResults == res[contracts[n]].callsReturnContext[1]
       IN IF contractResults.success
            THEN PutKey(results, contracts[n], contractResults.returnValues)
            ELSE results

OneContractFoldNoFlag(ctx) ==
  IF ctx = << >> THEN EmptyMap
  ELSE LET n == Len(ctx)
       IN PutKey(OneContractFoldNoFlag(SubSeq(ctx, 1, n - 1)), ctx[n].reference, ctx[n].returnValues)

\* callsReturnContext.forEach(result => { if(result.success) results[result.reference] = result.returnValues })
OneContractFold(ctx) ==
  IF ctx = << >> THEN EmptyMap
  ELSE LET n == Len(ctx)
           results == OneContractFold(SubSeq(ctx, 1, n - 1))
       IN IF ctx[n].success
            THEN PutKey(results, ctx[n].reference, ctx[n].returnValues)
            ELSE results

OneContractResults(res) == OneContractFold(res["oneContractQuery"].callsReturnContext)

\* contractResults.forEach(result => { queryResults[result.reference] = result.returnValues })
ComplexInner(ctx) ==
  IF ctx = << >> THEN EmptyMap
  ELSE LET n == Len(ctx)
       IN PutKey(ComplexInner(SubSeq(ctx, 1, n - 1)), ctx[n].reference, ctx[n].returnValues)

\* contracts.forEach(contract => { ...; results[contract] = queryResults })
ComplexResults(contracts, res) ==
  IF contracts = << >> THEN EmptyMap
  ELSE LET n == Len(contracts)
       IN PutKey(ComplexResults(SubSeq(contracts, 1, n - 1), res), contracts[n],
                 ComplexInner(res[contracts[n]].callsReturnContext))

\* what the calling variant builds from a successful helper invocation
BatchResults(s, res) ==
  CASE s.shape = "oneMethod" -> OneMethodResults(s.contracts, res)
    [] s.shape = "oneContract" -> OneContractResults(res)
    [] s.shape = "complex" -> ComplexResults(s.contracts, res)

\* a variant builds its queries and calls multicallQuery, which sends them in
\* one multicall.call(queries) to a provider of chains[chain].rpcs[0]
BatchBegin(shape, chain, contracts, calls) ==
  [pc |-> "awaiting", shape |-> shape, chain |-> chain,
   contracts |-> contracts, calls |-> calls,
   queries |-> BatchQueries(shape, contracts, calls),
   trips |-> << 0 >>, flags |-> << >>, cause |-> "none",
   returned |-> FALSE, results |-> EmptyMap, error |-> NoError]

\* new WeaverError(chain, null, `Invalid multicall query`, err)
InvalidMulticallQuery(chain, err) ==
  [kind |-> "WeaverError", chain |-> chain,
   description |-> "Invalid multicall query", cause |-> err]

MulticallOnFailureRetry(s, err) ==
  IF s.trips[Len(s.trips)] + 1 < MaxRpcs
    THEN [s EXCEPT !.trips = Append(@, s.trips[Len(s.trips)] + 1), !.cause = err]
    ELSE [s EXCEPT !.pc = "raised", !.cause = err, !.error = InvalidMulticallQuery(s.chain, err)]

\* catch(err) { throw ... }

MulticallOnFailure(s, err) ==
  [s EXCEPT !.pc = "raised", !.cause = err, !.error = InvalidMulticallQuery(s.chain, err)]

\* return results: the variant demultiplexes them and returns its mapping
MulticallOnReturn(s, flags) ==
  [s EXCEPT !.pc = "returned", !.flags = flags, !.returned = TRUE,
            !.results = BatchResults(s, ContractCallResults(s.queries, flags))]

MulticallOneMethodQuery(chain, contracts, methodName) ==
  /\ mc.pc = "idle"
  /\ mc' = BatchBegin("oneMethod", chain, contracts, << CallContext(methodName) >>)
  /\ UNCHANGED <<chains, q, tk, fo, g>>

MulticallOneContractQuery(chain, contractAddress, calls) ==
  /\ mc.pc = "idle"
  /\ mc' = BatchBegin("oneContract", chain, << contractAddress >>, calls)
  /\ UNCHANGED <<chains, q, tk, fo, g>>

MulticallComplexQuery(chain, contracts, calls) ==
  /\ mc.pc = "idle"
  /\ mc' = BatchBegin("complex", chain, contracts, calls)
  /\ UNCHANGED <<chains, q, tk, fo, g>>

\* multicall.call(queries) throws err
HelperFails(err) ==
  /\ mc.pc = "awaiting"
  /\ mc' = MulticallOnFailure(mc, err)
  /\ UNCHANGED <<chains, q, tk, fo, g>>

\* multicall.call(queries) resolves with per-call outcomes
HelperReturns ==
  /\ mc.pc = "awaiting"
  /\ \E flags \in BatchFlags(Len(mc.queries), Len(mc.queries[1].calls)) :
       mc' = MulticallOnReturn(mc, flags)
  /\ UNCHANGED <<chains, q, tk, fo, g>>

HelperErrors == {"helper unreachable", "malformed batch"}

CallLists == { [i \in DOMAIN refs |-> CallContext(refs[i])] : refs \in Prefixes(CallRefs, MaxCalls) }

InitBatch ==
  /\ InitChains
  /\ mc = Idle
  /\ q = QueryIdle /\ tk = Idle /\ fo = Idle /\ g = Idle

NextBatch ==
  \/ \E c \in Chains, cs \in Prefixes(BatchAddresses, MaxContracts) :
       MulticallOneMethodQuery(c, cs, "balanceOf")
  \/ \E c \in Chains, a \in {BatchAddresses[1], BatchAddresses[2]}, calls \in CallLists :
       MulticallOneContractQuery(c, a, calls)
  \/ \E c \in Chains, cs \in Prefixes(BatchAddresses, MaxContracts), calls \in CallLists :
       MulticallComplexQuery(c, cs, calls)
  \/ \E err \in HelperErrors : HelperFails(err)
  \/ HelperReturns

SpecBatch == InitBatch /\ [][NextBatch]_vars

-----------------------------------------------------------------------------
(* Claims about the batch layer *)

\* the references (positions i of the calls) whose call to query n succeeded
SucceededRefs(n) ==
  { mc.queries[n].calls[j].reference : j \in {j \in DOMAIN mc.flags[n] : mc.flags[n][j]} }

\* C4: a batch is one round trip, to the first endpoint of the pool only; when
\* the helper invocation fails the batch is not retried, the error raised
\* wraps the underlying cause, and the variant returns no mapping at all.
C4_BatchFailsWithoutRetry ==
  mc.pc # "idle" =>
     /\ mc.trips = << 0 >>
     /\ mc.pc = "raised" =>
          /\ mc.error.kind = "WeaverError"
          /\ mc.error.cause = mc.cause /\ mc.cause \in HelperErrors
          /\ ~mc.returned /\ mc.results = EmptyMap
     /\ mc.pc = "awaiting" => (~mc.returned /\ mc.error = NoError)

C4_Witness ==
  /\ mc.pc = "raised" /\ mc.shape = "complex"
  /\ Len(mc.contracts) = MaxContracts /\ chains[mc.chain] = MaxRpcs

\* C5: after a successful helper invocation the keys of the mapping returned
\* by multicallOneContractQuery are exactly the references whose call
\* succeeded, and the keys returned by multicallOneMethodQuery are exactly the
\* contract addresses whose call succeeded; a failed call raises nothing.
C5_KeysAreSucceededCalls ==
  mc.pc = "returned" =>
     /\ mc.error = NoError
     /\ mc.shape = "oneContract" => DOMAIN mc.results = SucceededRefs(1)
     /\ mc.shape = "oneMethod" =>
          DOMAIN mc.results = { mc.contracts[n] : n \in {n \in DOMAIN mc.contracts : mc.flags[n][1]} }
     /\ mc.shape \in {"oneContract", "oneMethod"} =>
          \A k \in DOMAIN mc.results : mc.results[k] = <<"ret">>

\* 3 calls, call #2 failing: exactly the keys of calls #1 and #3
C5_Witness ==
  /\ mc.pc = "returned" /\ mc.shape = "oneContract"
  /\ Len(mc.calls) = 3
  /\ mc.flags[1][1] /\ ~mc.flags[1][2] /\ mc.flags[1][3]
  /\ DOMAIN mc.results = {"symbol", "reserves"}

\* C6 (as claimed): in the many-methods-many-contracts shape the inner mapping
\* of every contract holds exactly the references whose call succeeded.
C6_ComplexOmitsFailedCalls ==
  (mc.pc = "returned" /\ mc.shape = "complex") =>
     \A n \in DOMAIN mc.contracts :
        DOMAIN mc.results[mc.contracts[n]] = SucceededRefs(n)

-----------------------------------------------------------------------------
(* The tracked-token catalog and the static tables *)

\* the tracked tokens and extra logos of a chain (tokens.ts): WAVAX 0xB31f...,
\* USDC 0xA7D7... on avax; WMATIC 0x0d50... on poly
avax_data ==
  [tokens |-> << [address |-> <<"B", "3">>, symbol |-> "WAVAX", decimals |-> 18, logo |-> "wavax.svg"],
                 [address |-> <<"A", "7">>, symbol |-> "USDC", decimals |-> 6, logo |-> "usdc.svg"] >>,
   logos |-> << [symbol |-> "AXIAL", logo |-> "axial.png"] >>]

poly_data ==
  [tokens |-> << [address |-> <<"0", "d">>, symbol |-> "WMATIC", decimals |-> 18, logo |-> "wmatic.svg"] >>,
   logos |-> << [symbol |-> "MATIC", logo |-> "matic.svg"] >>]

\* WBNB 0xbb4C... on bsc; WCRO 0x5C7F... on cronos
bsc_data ==
  [tokens |-> << [address |-> <<"b", "b">>, symbol |-> "WBNB", decimals |-> 18, logo |-> "wbnb.svg"] >>,
   logos |-> << [symbol |-> "BNB", logo |-> "bnb.svg"] >>]

cronos_data ==
  [tokens |-> << [address |-> <<"5", "C">>, symbol |-> "WCRO", decimals |-> 18, logo |-> "wcro.svg"] >>,
   logos |-> << >>]

undefined == [undefined |-> TRUE]

\* switch(chain) { case 'poly': return poly_data; case 'avax': return avax_data; ... default: return undefined }
getChainTokenData(chain) ==
  CASE chain = "poly" -> poly_data
    [] chain = "avax" -> avax_data
    [] chain = "bsc" -> bsc_data
    [] chain = "cronos" -> cronos_data
    [] OTHER -> undefined

\* Array.prototype.find on a list of records with an address
FindByAddress(list, address) ==
  LET I == {i \in DOMAIN list : toLowerCase(list[i].address) = toLowerCase(address)} IN
  IF I = {} THEN undefined ELSE list[CHOOSE i \in I : \A j \in I : i <= j]

\* Array.prototype.find on a list of records with a symbol
FindBySymbol(list, symbol) ==
  LET I == {i \in DOMAIN list : list[i].symbol = symbol} IN
  IF I = {} THEN undefined ELSE list[CHOOSE i \in I : \A j \in I : i <= j]

\* data.tokens.find(token => token.address.toLowerCase() === address.toLowerCase())
getTrackedTokenInfo(chain, address) ==
  LET data == getChainTokenData(chain) IN
  IF data # undefined THEN FindByAddress(data.tokens, address) ELSE undefined

\* the tracked token's logo, else the logo of data.logos, else the generic logo
getTokenLogo(chain, symbol) ==
  LET data == getChainTokenData(chain) IN
  IF data = undefined THEN defaultTokenLogo
  ELSE LET trackedToken == FindBySymbol(data.tokens, symbol) IN
       IF trackedToken # undefined THEN trackedToken.logo
       ELSE LET token == FindBySymbol(data.logos, symbol) IN
            IF token # undefined THEN token.logo ELSE defaultTokenLogo

\* String.prototype.toUpperCase on the chain identifiers
UpperCaseChain(chain) ==
  CASE chain = "avax" -> "AVAX"
    [] chain = "poly" -> "POLY"
    [] chain = "bsc" -> "BSC"
    [] chain = "cronos" -> "CRONOS"
    [] chain = "eth" -> "ETH"
    [] chain = "ftm" -> "FTM"
    [] chain = "one" -> "ONE"

getNativeTokenSymbol(chain) ==
  IF chain = "bsc" THEN "BNB"
  ELSE IF chain = "poly" THEN "MATIC"
  ELSE IF chain = "cronos" THEN "CRO"
  ELSE UpperCaseChain(chain)

\* C17: address comparisons ignore letter case: a query whose address is any
\* letter-case form of a suppressed address never raises and, all attempts
\* failing, returns the absent result; and getTrackedTokenInfo finds a tracked
\* token under every letter-case form of its address.
C17_AddressComparisonsIgnoreCase ==
  /\ (q.pc # "idle" /\ \E i \in ignoredErrors :
                          i.chain = q.chain /\ q.address \in CaseForms(i.address)) =>
        /\ q.pc # "raised"
        /\ (q.oks = 0 /\ Attempts = WorstCase) => (q.pc = "returned" /\ q.result = "undefined")
  \* the catalog does not depend on the state: checked where no query is in progress
  /\ q.pc = "idle" =>
        \A c \in Chains :
           LET tokens == getChainTokenData(c).tokens IN
           \A n \in DOMAIN tokens :
              \A a \in CaseForms(tokens[n].address) : getTrackedTokenInfo(c, a) = tokens[n]

\* the suppressed 0x8aaa... written 0x8Aaa..., and tracked WAVAX 0xB31f... as 0xb31f...
C17_Witness ==
  /\ q.pc = "returned" /\ q.oks = 0
  /\ q.chain = "poly" /\ q.address = <<"8", "A">>
  /\ Attempts = chains["poly"] * maxQueryRetries
  /\ getTrackedTokenInfo("avax", <<"b", "3">>).symbol = "WAVAX"

-----------------------------------------------------------------------------
(* JavaScript numbers.  A non-negative number is kept exactly, as the      *)
(* fraction (n / d) * 10^e in its one canonical form: n and d coprime, d   *)
(* coprime to 10, n not a multiple of 10.  The rounding of the 64-bit      *)
(* floating-point operations is not modelled.                              *)

RECURSIVE GCD(_, _)
GCD(a, b) == IF b = 0 THEN a ELSE GCD(b, a % b)

RECURSIVE Normalise(_, _, _)
Normalise(n, d, e) ==
  IF n = 0 THEN [n |-> 0, d |-> 1, e |-> 0]
  ELSE IF GCD(n, d) > 1 THEN Normalise(n \div GCD(n, d), d \div GCD(n, d), e)
  ELSE IF d % 2 = 0 THEN Normalise(n * 5, d \div 2, e - 1)
  ELSE IF d % 5 = 0 THEN Normalise(n * 2, d \div 5, e - 1)
  ELSE IF n % 10 = 0 THEN Normalise(n \div 10, d, e + 1)
  ELSE [n |-> n, d |-> d, e |-> e]

\* the number written m * 10^e, e.g. Sci(15, 17) for 1500000000000000000
Sci(m, e) == Normalise(m, 1, e)

\* 10 ** decimals
Pow10(decimals) == Sci(1, decimals)

\* x * y
Mul(x, y) == Normalise(x.n * y.n, x.d * y.d, x.e + y.e)

\* x / y, for y > 0
Div(x, y) == Normalise(x.n * y.d, x.d * y.n, x.e - y.e)

\* an on-chain uint256 as ethers hands it over
BigNumber(x) == [type |-> "BigNumber", value |-> x]

\* parseInt(ethers.BigNumber.from(bn).toString())
parseBN(bn) == bn.value

-----------------------------------------------------------------------------
(* The build operations addNativeToken, addToken, addDebtToken, addXToken   *)
(* and addLPToken.  An operation runs from one await to the next in one     *)
(* step; tk.lookups logs, in order, the catalog lookups, batch calls and    *)
(* price lookups it has made.                                               *)

\* calls: symbol() and decimals()
tokenCalls == << CallContext("symbol"), CallContext("decimals") >>

\* the arguments and the initialised locals of a build operation
TokenFrame(op, type, status, a) ==
  [pc |-> "start", op |-> op, type |-> type, chain |-> a.chain,
   location |-> a.location, status |-> status, address |-> a.address,
   rawBalance |-> a.rawBalance, owner |-> a.owner,
   underlyingAddress |-> a.underlyingAddress,
   underlyingRawBalance |-> a.underlyingRawBalance,
   symbol |-> "", decimals |-> 18, logo |-> "undefined",
   underlyingSymbol |-> "", underlyingDecimals |-> 18, underlyingLogo |-> "undefined",
   pending |-> "none", lookups |-> << >>, result |-> undefined, error |-> NoError]

Logged(s, entry) == [s EXCEPT !.lookups = Append(@, entry)]

\* getTrackedTokenInfo(chain, address) is consulted
LogCatalog(s, address) == Logged(s, [kind |-> "catalog", address |-> address])

\* await multicallOneContractQuery(chain, address, minABI, calls)
AwaitBatch(s, for, address) ==
  [Logged(s, [kind |-> "batch", for |-> for, address |-> address,
              refs |-> [i \in DOMAIN tokenCalls |-> tokenCalls[i].reference]])
     EXCEPT !.pc = "batch", !.pending = for]

\* await getTokenPrice(chain, address, decimals)
AwaitPrice(s, address, decimals) ==
  [Logged(s, [kind |-> "price", address |-> address, decimals |-> decimals])
     EXCEPT !.pc = "price", !.pending = "none"]

\* an exception leaves the operation
Raise(s, err) == [s EXCEPT !.pc = "raised", !.pending = "none", !.error = err]

\* results[ref][0] of a missing key: undefined[0] throws
TypeError == [kind |-> "TypeError"]

\* rawBalance / (10 ** decimals)
Balance(raw, decimals) == Div(raw, Pow10(decimals))

(* addToken *)

AddTokenBeginAlwaysBatch(s) ==
  IF toLowerCase(s.address) = defaultAddress
    THEN LET symbol == getNativeTokenSymbol(s.chain) IN
         AwaitPrice([s EXCEPT !.symbol = symbol, !.logo = getTokenLogo(s.chain, symbol)],
                    s.address, s.decimals)
    ELSE AwaitBatch(LogCatalog(s, s.address), "own", s.address)

AddTokenBeginCaseSensitive(s) ==
  IF s.address = defaultAddress
    THEN LET symbol == getNativeTokenSymbol(s.chain) IN
         AwaitPrice([s EXCEPT !.symbol = symbol, !.logo = getTokenLogo(s.chain, symbol)],
                    s.address, s.decimals)
    ELSE LET token == getTrackedTokenInfo(s.chain, s.address)
             t == LogCatalog(s, s.address) IN
         IF token # undefined
           THEN AwaitPrice([t EXCEPT !.symbol = token.symbol, !.decimals = token.decimals,
                                     !.logo = token.logo],
                           s.address, token.decimals)
           ELSE AwaitBatch(t, "own", s.address)

\* the synchronous part of addToken, up to its first await
AddTokenBegin(s) ==
  IF toLowerCase(s.address) = defaultAddress
    THEN LET symbol == getNativeTokenSymbol(s.chain) IN
         AwaitPrice([s EXCEPT !.symbol = symbol, !.logo = getTokenLogo(s.chain, symbol)],
                    s.address, s.decimals)
    ELSE LET token == getTrackedTokenInfo(s.chain, s.address)
             t == LogCatalog(s, s.address) IN
         IF token # undefined
           THEN AwaitPrice([t EXCEPT !.symbol = token.symbol, !.decimals = token.decimals,
                                     !.logo = token.logo],
                           s.address, token.decimals)
           ELSE AwaitBatch(t, "own", s.address)

\* symbol = multicallResults['symbol'][0]; decimals = multicallResults['decimals'][0]; logo = ...
AddTokenAfterBatch(s, multicallResults) ==
  IF "symbol" \notin DOMAIN multicallResults \/ "decimals" \notin DOMAIN multicallResults
    THEN Raise(s, TypeError)
    ELSE LET symbol == multicallResults["symbol"][1]
             decimals == multicallResults["decimals"][1] IN
         AwaitPrice([s EXCEPT !.symbol = symbol, !.decimals = decimals,
                              !.logo = getTokenLogo(s.chain, symbol)],
                    s.address, decimals)

AddTokenReturnThrowsOnNoPrice(s, price) ==
  IF price = "undefined"
    THEN Raise(s, TypeError)
    ELSE [s EXCEPT !.pc = "returned",
                   !.result = [type |-> s.type, chain |-> s.chain, location |-> s.location,
                               status |-> s.status, owner |-> s.owner, symbol |-> s.symbol,
                               address |-> s.address,
                               balance |-> Balance(s.rawBalance, s.decimals),
                               price |-> price, logo |-> s.logo]]

\* return { type, chain, location, status, owner, symbol, address, balance, price, logo }
AddTokenReturn(s, price) ==
  [s EXCEPT !.pc = "returned",
            !.result = [type |-> s.type, chain |-> s.chain, location |-> s.location,
                        status |-> s.status, owner |-> s.owner, symbol |-> s.symbol,
                        address |-> s.address,
                        balance |-> Balance(s.rawBalance, s.decimals),
                        price |-> price, logo |-> s.logo]]

(* addDebtToken *)

\* the synchronous part of addDebtToken, up to its first await
AddDebtTokenBegin(s) ==
  IF toLowerCase(s.address) = defaultAddress
    THEN LET symbol == getNativeTokenSymbol(s.chain) IN
         AwaitPrice([s EXCEPT !.symbol = symbol, !.logo = getTokenLogo(s.chain, symbol)],
                    s.address, s.decimals)
    ELSE LET token == getTrackedTokenInfo(s.chain, s.address)
             t == LogCatalog(s, s.address) IN
         IF token # undefined
           THEN AwaitPrice([t EXCEPT !.symbol = token.symbol, !.decimals = token.decimals,
                                     !.logo = token.logo],
                           s.address, token.decimals)
           ELSE AwaitBatch(t, "own", s.address)

AddDebtTokenAfterBatchDefaultDecimals(s, multicallResults) ==
  IF "symbol" \notin DOMAIN multicallResults \/ "decimals" \notin DOMAIN multicallResults
    THEN Raise(s, TypeError)
    ELSE LET symbol == multicallResults["symbol"][1] IN
         AwaitPrice([s EXCEPT !.symbol = symbol, !.logo = getTokenLogo(s.chain, symbol)],
                    s.address, s.decimals)

AddDebtTokenAfterBatch(s, multicallResults) ==
  IF "symbol" \notin DOMAIN multicallResults \/ "decimals" \notin DOMAIN multicallResults
    THEN Raise(s, TypeError)
    ELSE LET symbol == multicallResults["symbol"][1]
             decimals == multicallResults["decimals"][1] IN
         AwaitPrice([s EXCEPT !.symbol = symbol, !.decimals = decimals,
                              !.logo = getTokenLogo(s.chain, symbol)],
                    s.address, decimals)

AddDebtTokenReturn(s, price) ==
  [s EXCEPT !.pc = "returned",
            !.result = [type |-> s.type, chain |-> s.chain, location |-> s.location,
                        status |-> s.status, owner |-> s.owner, symbol |-> s.symbol,
                        address |-> s.address,
                        balance |-> Balance(s.rawBalance, s.decimals),
                        price |-> price, logo |-> s.logo]]

(* addXToken *)

\* addXToken first awaits the batch call for the derivative token itself
AddXTokenBegin(s) == AwaitBatch(s, "own", s.address)

\* symbol, decimals, balance, logo; then: let token = getTrackedTokenInfo(chain, address)
AddXTokenAfterOwnBatch(s, multicallResults) ==
  IF "symbol" \notin DOMAIN multicallResults \/ "decimals" \notin DOMAIN multicallResults
    THEN Raise(s, TypeError)
    ELSE LET symbol == multicallResults["symbol"][1]
             t == LogCatalog([s EXCEPT !.symbol = symbol,
                                       !.decimals = multicallResults["decimals"][1],
                                       !.logo = getTokenLogo(s.chain, symbol)],
                             s.address)
             token == getTrackedTokenInfo(s.chain, s.address) IN
         IF token # undefined
           THEN AwaitPrice([t EXCEPT !.underlyingSymbol = token.symbol,
                                     !.underlyingDecimals = token.decimals,
                                     !.underlyingLogo = token.logo],
                           s.underlyingAddress, token.decimals)
           ELSE AwaitBatch(t, "underlying", s.underlyingAddress)

\* underlyingSymbol, underlyingDecimals, underlyingLogo from the second batch call
AddXTokenAfterUnderlyingBatch(s, underlyingMulticallResults) ==
  IF "symbol" \notin DOMAIN underlyingMulticallResults
       \/ "decimals" \notin DOMAIN underlyingMulticallResults
    THEN Raise(s, TypeError)
    ELSE LET underlyingSymbol == underlyingMulticallResults["symbol"][1]
             underlyingDecimals == underlyingMulticallResults["decimals"][1] IN
         AwaitPrice([s EXCEPT !.underlyingSymbol = underlyingSymbol,
                              !.underlyingDecimals = underlyingDecimals,
                              !.underlyingLogo = getTokenLogo(s.chain, underlyingSymbol)],
                    s.underlyingAddress, underlyingDecimals)

\* return { type, chain, location, status, owner, symbol, address, balance, logo, underlyingToken }
AddXTokenReturn(s, price) ==
  [s EXCEPT !.pc = "returned",
            !.result = [type |-> s.type, chain |-> s.chain, location |-> s.location,
                        status |-> s.status, owner |-> s.owner, symbol |-> s.symbol,
                        address |-> s.address,
                        balance |-> Balance(s.rawBalance, s.decimals),
                        logo |-> s.logo,
                        underlyingToken |->
                          [symbol |-> s.underlyingSymbol, address |-> s.underlyingAddress,
                           balance |-> Balance(s.underlyingRawBalance, s.underlyingDecimals),
                           price |-> price, logo |-> s.underlyingLogo]]]

(* addNativeToken *)

\* type, location, status, address, decimals, balance; await getTokenPrice(chain, defaultAddress, decimals)
AddNativeTokenBegin(chain, rawBalance, owner) ==
  LET decimals == 18
      s == TokenFrame("addNativeToken", "nativeToken", "none",
                      [chain |-> chain, location |-> "wallet", address |-> defaultAddress,
                       rawBalance |-> rawBalance, owner |-> owner,
                       underlyingAddress |-> << >>, underlyingRawBalance |-> 0]) IN
  AwaitPrice([s EXCEPT !.decimals = decimals], defaultAddress, decimals)

AddNativeTokenReturnUpperCase(s, price) ==
  LET symbol == UpperCaseChain(s.chain)
      logo == getTokenLogo(s.chain, symbol) IN
  [s EXCEPT !.pc = "returned", !.symbol = symbol, !.logo = logo,
            !.result = [type |-> s.type, chain |-> s.chain, location |-> s.location,
                        status |-> s.status, owner |-> s.owner, symbol |-> symbol,
                        address |-> s.address,
                        balance |-> Balance(s.rawBalance, s.decimals),
                        price |-> price, logo |-> logo]]

\* symbol = getNativeTokenSymbol(chain); logo = getTokenLogo(chain, symbol); return { ... }
AddNativeTokenReturn(s, price) ==
  LET symbol == getNativeTokenSymbol(s.chain)
      logo == getTokenLogo(s.chain, symbol) IN
  [s EXCEPT !.pc = "returned", !.symbol = symbol, !.logo = logo,
            !.result = [type |-> s.type, chain |-> s.chain, location |-> s.location,
                        status |-> s.status, owner |-> s.owner, symbol |-> symbol,
                        address |-> s.address,
                        balance |-> Balance(s.rawBalance, s.decimals),
                        price |-> price, logo |-> logo]]

(* addLPToken *)

\* the arguments and the initialised locals of addLPToken; the locals assigned
\* later start as undefined
LPFrame(a) ==
  [pc |-> "start", op |-> "addLPToken", type |-> "lpToken", chain |-> a.chain,
   location |-> a.location, status |-> a.status, address |-> a.address,
   rawBalance |-> a.rawBalance, owner |-> a.owner,
   symbol |-> "", decimals |-> 18,
   symbol0 |-> "", symbol1 |-> "", decimals0 |-> 18, decimals1 |-> 18,
   lpMulticallResults |-> undefined, balance |-> undefined,
   lpTokenReserves |-> undefined, lpTokenSupply |-> undefined,
   supply0 |-> undefined, supply1 |-> undefined,
   address0 |-> << >>, address1 |-> << >>,
   trackedToken0 |-> undefined, trackedToken1 |-> undefined,
   token0 |-> undefined,
   pending |-> "none", lookups |-> << >>, result |-> undefined, error |-> NoError]

\* await multicallOneContractQuery(chain, address, lpABI, lpCalls), lpCalls
\* being symbol, decimals, getReserves, totalSupply, token0, token1
AddLPTokenBegin(s) ==
  [Logged(s, [kind |-> "batch", for |-> "lp", address |-> s.address, refs |-> CallRefs])
     EXCEPT !.pc = "batch", !.pending = "lp"]

AddLPTokenSuppliesLPDecimals(s) ==
  IF s.lpTokenReserves = undefined
    THEN Raise(s, TypeError)
    ELSE LET t == [s EXCEPT
                     !.supply0 = Div(parseBN(s.lpTokenReserves.values[1]), Pow10(s.decimals)),
                     !.supply1 = Div(parseBN(s.lpTokenReserves.values[2]), Pow10(s.decimals))] IN
         [AwaitPrice(t, s.address0, s.decimals0) EXCEPT !.pending = "price0"]

\* supply0 = parseBN(lpTokenReserves[0]) / (10 ** decimals0), supply1 likewise;
\* then token0 = { ..., price: await getTokenPrice(chain, address0, decimals0), ... }
AddLPTokenSupplies(s) ==
  IF s.lpTokenReserves = undefined
    THEN Raise(s, TypeError)
    ELSE LET t == [s EXCEPT
                     !.supply0 = Div(parseBN(s.lpTokenReserves.values[1]), Pow10(s.decimals0)),
                     !.supply1 = Div(parseBN(s.lpTokenReserves.values[2]), Pow10(s.decimals1))] IN
         [AwaitPrice(t, s.address0, s.decimals0) EXCEPT !.pending = "price0"]

AddLPTokenResolveToken1AlwaysBatch(s) ==
  AwaitBatch(s, "token1", s.address1)

\* if(trackedToken1) { symbol1, decimals1 } else { await multicallOneContractQuery(chain, address1, ...) }
AddLPTokenResolveToken1(s) ==
  IF s.trackedToken1 # undefined
    THEN AddLPTokenSupplies([s EXCEPT !.symbol1 = s.trackedToken1.symbol,
                                      !.decimals1 = s.trackedToken1.decimals])
    ELSE AwaitBatch(s, "token1", s.address1)

\* if(trackedToken0) { symbol0, decimals0 } else { await multicallOneContractQuery(chain, address0, ...) }
AddLPTokenResolveToken0(s) ==
  IF s.trackedToken0 # undefined
    THEN AddLPTokenResolveToken1([s EXCEPT !.symbol0 = s.trackedToken0.symbol,
                                           !.decimals0 = s.trackedToken0.decimals])
    ELSE AwaitBatch(s, "token0", s.address0)

\* the lines after the LP batch call, down to the next await
AddLPTokenAfterLPBatch(s, lpMulticallResults) ==
  IF \E ref \in {"symbol", "decimals", "totalSupply", "token0", "token1"} :
        ref \notin DOMAIN lpMulticallResults
    THEN Raise(s, TypeError)
    ELSE LET decimals == lpMulticallResults["decimals"][1]
             address0 == lpMulticallResults["token0"][1]
             address1 == lpMulticallResults["token1"][1]
             t == [s EXCEPT
                     !.lpMulticallResults = [results |-> lpMulticallResults],
                     !.symbol = lpMulticallResults["symbol"][1],
                     !.decimals = decimals,
                     !.balance = Div(s.rawBalance, Pow10(decimals)),
                     !.lpTokenReserves =
                        IF "reserves" \in DOMAIN lpMulticallResults
                          THEN [values |-> lpMulticallResults["reserves"]]
                          ELSE undefined,
                     !.lpTokenSupply =
                        Div(parseBN(lpMulticallResults["totalSupply"][1]), Pow10(decimals)),
                     !.address0 = address0,
                     !.address1 = address1,
                     !.trackedToken0 = getTrackedTokenInfo(s.chain, address0),
                     !.trackedToken1 = getTrackedTokenInfo(s.chain, address1)] IN
         AddLPTokenResolveToken0(LogCatalog(LogCatalog(t, address0), address1))

\* symbol0 = tokenMulticallResults['symbol'][0]; decimals0 = tokenMulticallResults['decimals'][0]
AddLPTokenAfterToken0Batch(s, tokenMulticallResults) ==
  IF "symbol" \notin DOMAIN tokenMulticallResults
       \/ "decimals" \notin DOMAIN tokenMulticallResults
    THEN Raise(s, TypeError)
    ELSE AddLPTokenResolveToken1([s EXCEPT !.symbol0 = tokenMulticallResults["symbol"][1],
                                           !.decimals0 = tokenMulticallResults["decimals"][1]])

\* symbol1 = tokenMulticallResults['symbol'][0]; decimals1 = tokenMulticallResults['decimals'][0]
AddLPTokenAfterToken1Batch(s, tokenMulticallResults) ==
  IF "symbol" \notin DOMAIN tokenMulticallResults
       \/ "decimals" \notin DOMAIN tokenMulticallResults
    THEN Raise(s, TypeError)
    ELSE AddLPTokenSupplies([s EXCEPT !.symbol1 = tokenMulticallResults["symbol"][1],
                                      !.decimals1 = tokenMulticallResults["decimals"][1]])

\* token0 is complete; token1 = { ..., price: await getTokenPrice(chain, address1, decimals1), ... }
AddLPTokenAfterPrice0(s, price) ==
  LET token0 == [symbol |-> s.symbol0, address |-> s.address0,
                 balance |-> Mul(s.supply0, Div(s.balance, s.lpTokenSupply)),
                 price |-> price, logo |-> getTokenLogo(s.chain, s.symbol0)] IN
  [AwaitPrice([s EXCEPT !.token0 = token0], s.address1, s.decimals1)
     EXCEPT !.pending = "price1"]

\* return { type, chain, location, status, owner, symbol, address, balance, token0, token1 }
AddLPTokenReturn(s, price) ==
  LET token1 == [symbol |-> s.symbol1, address |-> s.address1,
                 balance |-> Mul(s.supply1, Div(s.balance, s.lpTokenSupply)),
                 price |-> price, logo |-> getTokenLogo(s.chain, s.symbol1)] IN
  [s EXCEPT !.pc = "returned", !.pending = "none",
            !.result = [type |-> s.type, chain |-> s.chain, location |-> s.location,
                        status |-> s.status, owner |-> s.owner, symbol |-> s.symbol,
                        address |-> s.address, balance |-> s.balance,
                        token0 |-> s.token0, token1 |-> token1]]

(* The calls of the build operations and the answers they await *)

\* token addresses handed to the build operations: tracked WAVAX in two letter
\* cases, an untracked token, and the native sentinel in two letter cases
TokenAddresses ==
  { <<"B", "3">>, <<"b", "3">>, <<"c", "F">>, <<"e", "e">>, <<"E", "e">> }

UnderlyingAddresses == { <<"B", "3">>, <<"c", "F">> }

TokenStatuses == {"none", "lent"}

\* 1500000000000000000
RawBalances == { Sci(15, 17) }

\* symbol() and decimals() as the token contracts may answer them
OnChainSymbols == {"AXIAL", "xJOE"}

OnChainDecimals == {6, 18}

\* what getTokenPrice resolves to: a price, or undefined when it finds none
PriceValues == {"undefined", "2.00"}

TokenArgs(chain, status, address, rawBalance) ==
  [chain |-> chain, location |-> "aave", status |-> status, address |-> address,
   rawBalance |-> rawBalance, owner |-> "wallet",
   underlyingAddress |-> << >>, underlyingRawBalance |-> 0]

XTokenArgs(chain, status, address, rawBalance, underlyingAddress, underlyingRawBalance) ==
  [chain |-> chain, location |-> "aave", status |-> status, address |-> address,
   rawBalance |-> rawBalance, owner |-> "wallet",
   underlyingAddress |-> underlyingAddress, underlyingRawBalance |-> underlyingRawBalance]

\* the mapping multicallOneContractQuery returns for calls symbol, decimals when
\* the helper reports the success flags f and the values vals
TokenBatchResults(f, vals) ==
  OneContractResults(
    [r \in {"oneContractQuery"} |->
       [callsReturnContext |->
          [j \in DOMAIN tokenCalls |->
             [reference |-> tokenCalls[j].reference, success |-> f[j],
              returnValues |-> IF f[j] THEN << vals[j] >> ELSE << >>]]]])

\* what the LP contract may answer: reserves of 1000 (18 decimals) and 2000
\* (6 decimals) in raw units with the block timestamp, a total supply of 100
\* or 30 LP tokens, and the two underlying tokens (WAVAX or the untracked
\* 0xcF..., USDC or the untracked 0xcF...)
LPContracts ==
  { [symbol |-> "JLP", decimals |-> 18,
     reserves |-> << BigNumber(Sci(1, 21)), BigNumber(Sci(2, 9)), 1667289600 >>,
     totalSupply |-> BigNumber(ts), token0 |-> t0, token1 |-> t1] :
       ts \in { Sci(1, 20), Sci(3, 19) },
       t0 \in { <<"B", "3">>, <<"c", "F">> },
       t1 \in { <<"A", "7">>, <<"c", "F">> } }

AddNativeToken(chain, rawBalance, owner) ==
  /\ tk.pc = "idle"
  /\ tk' = AddNativeTokenBegin(chain, rawBalance, owner)
  /\ UNCHANGED <<chains, q, mc, fo, g>>

AddLPToken(a) ==
  /\ tk.pc = "idle"
  /\ tk' = AddLPTokenBegin(LPFrame(a))
  /\ UNCHANGED <<chains, q, mc, fo, g>>

\* the awaited multicallOneContractQuery for lpCalls returns its mapping, the
\* helper reporting the success flags f and the LP contract answering c
LPBatchReturns(f, c) ==
  /\ tk.pc = "batch" /\ tk.pending = "lp"
  /\ LET vals == << << c.symbol >>, << c.decimals >>, c.reserves, << c.totalSupply >>,
                    << c.token0 >>, << c.token1 >> >>
         results ==
           OneContractResults(
             [r \in {"oneContractQuery"} |->
                [callsReturnContext |->
                   [j \in DOMAIN CallRefs |->
                      [reference |-> CallRefs[j], success |-> f[j],
                       returnValues |-> IF f[j] THEN vals[j] ELSE << >>]]]]) IN
     tk' = AddLPTokenAfterLPBatch(tk, results)
  /\ UNCHANGED <<chains, q, mc, fo, g>>

AddToken(a) ==
  /\ tk.pc = "idle"
  /\ tk' = AddTokenBegin(TokenFrame("addToken", "token", a.status, a))
  /\ UNCHANGED <<chains, q, mc, fo, g>>

AddDebtToken(a) ==
  /\ tk.pc = "idle"
  /\ tk' = AddDebtTokenBegin(TokenFrame("addDebtToken", "debt", "borrowed", a))
  /\ UNCHANGED <<chains, q, mc, fo, g>>

AddXToken(a) ==
  /\ tk.pc = "idle"
  /\ tk' = AddXTokenBegin(TokenFrame("addXToken", "xToken", a.status, a))
  /\ UNCHANGED <<chains, q, mc, fo, g>>

\* the awaited batch call's error is swallowed and the defaults are priced
TokenBatchFailsSwallowed(err) ==
  /\ tk.pc = "batch"
  /\ tk' = AwaitPrice(tk, tk.address, tk.decimals)
  /\ UNCHANGED <<chains, q, mc, fo, g>>

\* the awaited multicallOneContractQuery raises multicallQuery's error
TokenBatchFails(err) ==
  /\ tk.pc = "batch"
  /\ tk' = Raise(tk, InvalidMulticallQuery(tk.chain, err))
  /\ UNCHANGED <<chains, q, mc, fo, g>>

\* the awaited multicallOneContractQuery returns its mapping
TokenBatchReturns(f, symbol, decimals) ==
  /\ tk.pc = "batch" /\ tk.pending # "lp"
  /\ LET results == TokenBatchResults(f, << symbol, decimals >>) IN
     tk' = CASE tk.op = "addToken" -> AddTokenAfterBatch(tk, results)
             [] tk.op = "addDebtToken" -> AddDebtTokenAfterBatch(tk, results)
             [] tk.op = "addXToken" /\ tk.pending = "own" -> AddXTokenAfterOwnBatch(tk, results)
             [] tk.op = "addXToken" /\ tk.pending = "underlying" ->
                  AddXTokenAfterUnderlyingBatch(tk, results)
             [] tk.op = "addLPToken" /\ tk.pending = "token0" ->
                  AddLPTokenAfterToken0Batch(tk, results)
             [] tk.op = "addLPToken" /\ tk.pending = "token1" ->
                  AddLPTokenAfterToken1Batch(tk, results)
  /\ UNCHANGED <<chains, q, mc, fo, g>>

\* the awaited getTokenPrice resolves, and the operation returns its record
TokenPriceReturns(price) ==
  /\ tk.pc = "price"
  /\ tk' = CASE tk.op = "addToken" -> AddTokenReturn(tk, price)
             [] tk.op = "addDebtToken" -> AddDebtTokenReturn(tk, price)
             [] tk.op = "addXToken" -> AddXTokenReturn(tk, price)
             [] tk.op = "addNativeToken" -> AddNativeTokenReturn(tk, price)
             [] tk.op = "addLPToken" /\ tk.pending = "price0" -> AddLPTokenAfterPrice0(tk, price)
             [] tk.op = "addLPToken" /\ tk.pending = "price1" -> AddLPTokenReturn(tk, price)
  /\ UNCHANGED <<chains, q, mc, fo, g>>

InitToken ==
  /\ InitChains
  /\ tk = Idle
  /\ q = QueryIdle /\ mc = Idle /\ fo = Idle /\ g = Idle

NextToken ==
  \/ \E c \in Chains, st \in TokenStatuses, a \in TokenAddresses, b \in RawBalances :
       AddToken(TokenArgs(c, st, a, b))
  \/ \E c \in Chains, a \in TokenAddresses, b \in RawBalances :
       AddDebtToken(TokenArgs(c, "borrowed", a, b))
  \/ \E c \in Chains, st \in TokenStatuses, a \in TokenAddresses, b \in RawBalances,
        u \in UnderlyingAddresses :
       AddXToken(XTokenArgs(c, st, a, b, u, b))
  \/ \E c \in {"poly", "avax", "bsc", "cronos"}, b \in RawBalances :
       AddNativeToken(c, b, "wallet")
  \* the LP token 0x57..., of which the holder has 10 or 100 (18 decimals)
  \/ \E c \in Chains, b \in { Sci(1, 19), Sci(1, 20) } :
       AddLPToken([chain |-> c, location |-> "axial", status |-> "staked",
                   address |-> <<"5", "7">>, rawBalance |-> b, owner |-> "wallet"])
  \/ \E f \in [1..6 -> BOOLEAN], c \in LPContracts : LPBatchReturns(f, c)
  \/ \E err \in HelperErrors : TokenBatchFails(err)
  \/ \E f \in [1..2 -> BOOLEAN], sym \in OnChainSymbols, dec \in OnChainDecimals :
       TokenBatchReturns(f, sym, dec)
  \/ \E p \in PriceValues : TokenPriceReturns(p)

SpecToken == InitToken /\ [][NextToken]_vars

-----------------------------------------------------------------------------
(* Claims about the build operations *)

\* the batch calls the operation has issued, in order
BatchLookups == SelectSeq(tk.lookups, LAMBDA e : e.kind = "batch")

IsSentinel(address) == toLowerCase(address) = defaultAddress

\* the operation is past its metadata resolution
MetadataResolved == tk.pc \in {"price", "returned"}

\* C9: in addToken and addDebtToken, for a non-sentinel address with a catalog
\* entry for (chain, address), symbol, decimals and logo are the entry's and no
\* batch call is issued; on a catalog miss exactly one many-methods-one-contract
\* batch call (symbol, decimals) to the address is issued; for the sentinel none.
C9_CatalogBeforeBatch ==
  (tk.pc # "idle" /\ tk.op \in {"addToken", "addDebtToken"}) =>
     LET entry == getTrackedTokenInfo(tk.chain, tk.address) IN
     /\ (~IsSentinel(tk.address) /\ entry # undefined) =>
          /\ BatchLookups = << >>
          /\ tk.symbol = entry.symbol /\ tk.decimals = entry.decimals /\ tk.logo = entry.logo
          /\ tk.pc = "returned" =>
               /\ tk.result.symbol = entry.symbol /\ tk.result.logo = entry.logo
               /\ tk.result.balance = Balance(tk.rawBalance, entry.decimals)
     /\ (~IsSentinel(tk.address) /\ entry = undefined) =>
          BatchLookups = << [kind |-> "batch", for |-> "own", address |-> tk.address,
                             refs |-> <<"symbol", "decimals">>] >>
     /\ IsSentinel(tk.address) => BatchLookups = << >>

C9_Witness ==
  /\ tk.pc = "returned" /\ tk.op = "addDebtToken"
  /\ tk.chain = "avax" /\ tk.address = <<"b", "3">>
  /\ tk.result.symbol = "WAVAX" /\ BatchLookups = << >>

\* C10 (as claimed): addXToken takes the underlying token's symbol, decimals
\* and logo from the catalog entry of the underlying address when there is one,
\* and issues a batch call to the underlying address only when there is none;
\* its own symbol and decimals always come from a batch call to its address.
C10_UnderlyingFromItsCatalogEntry ==
  (tk.pc # "idle" /\ tk.op = "addXToken" /\ MetadataResolved) =>
     LET entry == getTrackedTokenInfo(tk.chain, tk.underlyingAddress)
         toUnderlying == SelectSeq(tk.lookups,
                                   LAMBDA e : e.kind = "batch" /\ e.for = "underlying") IN
     /\ BatchLookups[1].for = "own" /\ BatchLookups[1].address = tk.address
     /\ entry # undefined =>
          /\ toUnderlying = << >>
          /\ tk.underlyingSymbol = entry.symbol
          /\ tk.underlyingDecimals = entry.decimals
          /\ tk.underlyingLogo = entry.logo
     /\ entry = undefined =>
          /\ Len(toUnderlying) = 1
          /\ toUnderlying[1].address = tk.underlyingAddress

\* C14: for the native sentinel address in any letter case, addToken and
\* addDebtToken make no catalog lookup and no batch call (the price lookup is
\* their only lookup), take the symbol from the static native table of the
\* chain and keep 18 decimals.
C14_SentinelBypassesMetadataLookup ==
  (tk.pc # "idle" /\ tk.op \in {"addToken", "addDebtToken"}
     /\ tk.address \in CaseForms(defaultAddress)) =>
     /\ tk.pc \in {"price", "returned"}
     /\ \A i \in DOMAIN tk.lookups : tk.lookups[i].kind = "price"
     /\ tk.symbol = getNativeTokenSymbol(tk.chain)
     /\ tk.decimals = 18
     /\ tk.pc = "returned" =>
          /\ tk.result.symbol = getNativeTokenSymbol(tk.chain)
          /\ tk.result.balance = Balance(tk.rawBalance, 18)

C14_Witness ==
  /\ tk.pc = "returned" /\ tk.op = "addToken"
  /\ tk.chain = "poly" /\ tk.address = <<"E", "e">>
  /\ tk.result.symbol = "MATIC"
  /\ Len(tk.lookups) = 1

\* C11 (as claimed): when the address has no catalog entry and the batch result
\* lacks the 'decimals' reference because that call failed, addToken and
\* addDebtToken keep the default of 18 decimals and go on to build the record.
C11_DefaultDecimalsWhenUnresolved ==
  [][\A f \in [1..2 -> BOOLEAN], sym \in OnChainSymbols, dec \in OnChainDecimals :
       (/\ tk.pc = "batch" /\ tk.op \in {"addToken", "addDebtToken"}
        /\ f[1] /\ ~f[2]
        /\ TokenBatchReturns(f, sym, dec))
         => (tk'.pc = "price" /\ tk'.decimals = 18)]_vars

\* C12: addLPToken gives each underlying token the balance
\* reserve_i / 10^decimals_i * (holder LP balance / total supply); reserves of
\* 1000 and 2000 with a total supply of 100 and a holder balance of 10 give 100
\* and 200; a holder balance equal to the total supply gives the full reserves.
C12_LPSharesProportional ==
  (tk.pc = "returned" /\ tk.op = "addLPToken") =>
     LET r == tk.lpMulticallResults.results
         total == parseBN(r["totalSupply"][1])
         reserve0 == Div(parseBN(r["reserves"][1]), Pow10(tk.decimals0))
         reserve1 == Div(parseBN(r["reserves"][2]), Pow10(tk.decimals1))
         share0 == tk.result.token0.balance
         share1 == tk.result.token1.balance IN
     /\ share0 = Mul(reserve0, Div(tk.rawBalance, total))
     /\ share1 = Mul(reserve1, Div(tk.rawBalance, total))
     /\ (/\ reserve0 = Sci(1000, 0) /\ reserve1 = Sci(2000, 0)
         /\ Div(total, Pow10(tk.decimals)) = Sci(100, 0)
         /\ tk.result.balance = Sci(10, 0)) => (share0 = Sci(100, 0) /\ share1 = Sci(200, 0))
     /\ tk.rawBalance = total => (share0 = reserve0 /\ share1 = reserve1)

\* WAVAX (18 decimals) and USDC (6 decimals) on avax, 10 of 100 LP tokens held
C12_Witness ==
  /\ tk.pc = "returned" /\ tk.op = "addLPToken" /\ tk.chain = "avax"
  /\ tk.address0 = <<"B", "3">> /\ tk.address1 = <<"A", "7">>
  /\ tk.rawBalance = Sci(1, 19)
  /\ tk.result.token0.balance = Sci(100, 0) /\ tk.result.token1.balance = Sci(200, 0)

\* C13: when getTokenPrice resolves to no price, the operation awaiting it goes
\* on: addNativeToken, addToken, addDebtToken and addXToken return their record
\* with the price absent, addLPToken completes the underlying token with the
\* price absent and returns its record after the second price lookup.
C13_PriceFailureKeepsRecord ==
  [][TokenPriceReturns("undefined") =>
       /\ tk'.error = NoError
       /\ CASE tk.op \in {"addNativeToken", "addToken", "addDebtToken"} ->
                 /\ tk'.pc = "returned" /\ tk'.result # undefined
                 /\ tk'.result.price = "undefined"
            [] tk.op = "addXToken" ->
                 /\ tk'.pc = "returned" /\ tk'.result # undefined
                 /\ tk'.result.underlyingToken.price = "undefined"
            [] tk.op = "addLPToken" /\ tk.pending = "price0" ->
                 /\ tk'.pc = "price" /\ tk'.token0.price = "undefined"
            [] tk.op = "addLPToken" /\ tk.pending = "price1" ->
                 /\ tk'.pc = "returned" /\ tk'.result # undefined
                 /\ tk'.result.token1.price = "undefined"
                 /\ tk'.result.token0 = tk.token0]_vars

\* an LP record whose first underlying token has no price and whose second has one
C13_Witness ==
  /\ tk.pc = "returned" /\ tk.op = "addLPToken"
  /\ tk.result.token0.price = "undefined" /\ tk.result.token1.price = "2.00"

\* C15: addNativeToken makes the price lookup and no other lookup, and returns
\* a record with balance rawBalance / 10^18 (1500000000000000000 gives 1.5),
\* the sentinel address, location 'wallet', status 'none' and the symbol BNB
\* on bsc, MATIC on poly, CRO on cronos, else the upper-cased chain identifier.
C15_NativeHoldingRecord ==
  (tk.pc # "idle" /\ tk.op = "addNativeToken") =>
     /\ tk.pc \in {"price", "returned"}
     /\ \A i \in DOMAIN tk.lookups : tk.lookups[i].kind = "price"
     /\ tk.pc = "returned" =>
          /\ tk.result.balance = Div(tk.rawBalance, Sci(1, 18))
          /\ tk.rawBalance = Sci(15, 17) => tk.result.balance = Sci(15, -1)
          /\ tk.result.address = defaultAddress
          /\ tk.result.location = "wallet" /\ tk.result.status = "none"
          /\ tk.result.symbol = CASE tk.chain = "bsc" -> "BNB"
                                  [] tk.chain = "poly" -> "MATIC"
                                  [] tk.chain = "cronos" -> "CRO"
                                  [] OTHER -> UpperCaseChain(tk.chain)

C15_Witness ==
  /\ tk.pc = "returned" /\ tk.op = "addNativeToken" /\ tk.chain = "cronos"
  /\ tk.result.symbol = "CRO" /\ tk.result.balance = Sci(15, -1)
  /\ Len(tk.lookups) = 1

\* C20: addLPToken's first batch call goes to the LP contract with the six
\* references of lpCalls and is its only call there; once the metadata is
\* resolved it has made, for each underlying token, no batch call when the
\* token is tracked and one (symbol, decimals) to its address when it is not:
\* 1 + the number of untracked underlying tokens in all.
C20_LPBatchCallCount ==
  (tk.pc # "idle" /\ tk.op = "addLPToken") =>
     LET to(for) == SelectSeq(tk.lookups, LAMBDA e : e.kind = "batch" /\ e.for = for)
         expected(for, address) ==
           IF getTrackedTokenInfo(tk.chain, address) # undefined
             THEN << >>
             ELSE << [kind |-> "batch", for |-> for, address |-> address,
                      refs |-> <<"symbol", "decimals">>] >> IN
     /\ to("lp") = << [kind |-> "batch", for |-> "lp", address |-> tk.address,
                       refs |-> <<"symbol", "decimals", "reserves", "totalSupply",
                                  "token0", "token1">>] >>
     /\ BatchLookups[1].for = "lp"
     /\ MetadataResolved =>
          /\ BatchLookups = to("lp") \o expected("token0", tk.address0)
                                     \o expected("token1", tk.address1)
          /\ Len(BatchLookups) =
               1 + Cardinality({ a \in {0, 1} :
                                   getTrackedTokenInfo(tk.chain,
                                     IF a = 0 THEN tk.address0 ELSE tk.address1) = undefined })

\* WAVAX tracked, 0xcF... untracked: two batch calls
C20_Witness ==
  /\ tk.pc = "returned" /\ tk.op = "addLPToken" /\ tk.chain = "avax"
  /\ tk.address0 = <<"B", "3">> /\ tk.address1 = <<"c", "F">>
  /\ Len(BatchLookups) = 2

\* C21: when the batch call awaited by addToken, addDebtToken, addXToken or
\* addLPToken raises, the operation raises that same error: it returns no
\* record, and makes no price lookup or other lookup afterwards.
C21_BatchFailurePropagates ==
  [][/\ \A err \in HelperErrors :
          TokenBatchFails(err) =>
            /\ tk'.pc = "raised" /\ tk'.result = undefined
            /\ tk'.error = InvalidMulticallQuery(tk.chain, err)
            /\ tk'.lookups = tk.lookups
     /\ tk.pc = "raised" => tk' = tk]_vars

\* addLPToken raising at the batch call for its second underlying token, after
\* the LP batch call and the price lookup of the first
C21_Witness ==
  /\ tk.pc = "raised" /\ tk.op = "addLPToken"
  /\ tk.error = InvalidMulticallQuery(tk.chain, "malformed batch")
  /\ tk.result = undefined
  /\ tk.lookups[Len(tk.lookups)].kind = "batch"
  /\ tk.lookups[Len(tk.lookups)].for = "token1"

-----------------------------------------------------------------------------
(* addToken and addDebtToken side by side: tk.token and tk.debt are the    *)
(* frames of the two operations called with the same arguments, and every  *)
(* answer of a batch call or price lookup is given to both.                *)

PairStart(a) ==
  /\ tk.pc = "idle"
  /\ tk' = [pc |-> "pair",
            token |-> AddTokenBegin(TokenFrame("addToken", "token", a.status, a)),
            debt |-> AddDebtTokenBegin(TokenFrame("addDebtToken", "debt", "borrowed", a))]
  /\ UNCHANGED <<chains, q, mc, fo, g>>

\* the batch call either operation awaits raises
PairBatchFails(err) ==
  /\ tk.pc = "pair"
  /\ tk.token.pc = "batch" \/ tk.debt.pc = "batch"
  /\ tk' = [tk EXCEPT
              !.token = IF @.pc = "batch" THEN Raise(@, InvalidMulticallQuery(@.chain, err)) ELSE @,
              !.debt = IF @.pc = "batch" THEN Raise(@, InvalidMulticallQuery(@.chain, err)) ELSE @]
  /\ UNCHANGED <<chains, q, mc, fo, g>>

\* the batch call either operation awaits returns its mapping
PairBatchReturns(f, symbol, decimals) ==
  /\ tk.pc = "pair"
  /\ tk.token.pc = "batch" \/ tk.debt.pc = "batch"
  /\ LET results == TokenBatchResults(f, << symbol, decimals >>) IN
     tk' = [tk EXCEPT
              !.token = IF @.pc = "batch" THEN AddTokenAfterBatch(@, results) ELSE @,
              !.debt = IF @.pc = "batch" THEN AddDebtTokenAfterBatch(@, results) ELSE @]
  /\ UNCHANGED <<chains, q, mc, fo, g>>

\* the price lookup either operation awaits resolves
PairPriceReturns(price) ==
  /\ tk.pc = "pair"
  /\ tk.token.pc = "price" \/ tk.debt.pc = "price"
  /\ tk' = [tk EXCEPT
              !.token = IF @.pc = "price" THEN AddTokenReturn(@, price) ELSE @,
              !.debt = IF @.pc = "price" THEN AddDebtTokenReturn(@, price) ELSE @]
  /\ UNCHANGED <<chains, q, mc, fo, g>>

NextPair ==
  \/ \E c \in Chains, st \in TokenStatuses, a \in TokenAddresses, b \in RawBalances :
       PairStart(TokenArgs(c, st, a, b))
  \/ \E err \in HelperErrors : PairBatchFails(err)
  \/ \E f \in [1..2 -> BOOLEAN], sym \in OnChainSymbols, dec \in OnChainDecimals :
       PairBatchReturns(f, sym, dec)
  \/ \E p \in PriceValues : PairPriceReturns(p)

SpecPair == InitToken /\ [][NextPair]_vars

\* C16: called with the same arguments and given the same answers, addToken
\* and addDebtToken are at the same point, have made the same lookups in the
\* same order and raise the same error; their records agree in every field
\* (symbol, address, balance, price, logo, chain, location, owner) except the
\* type, 'token' against 'debt', and the status, the argument against 'borrowed'.
C16_DebtMirrorsToken ==
  tk.pc = "pair" =>
     /\ tk.token.pc = tk.debt.pc
     /\ tk.token.lookups = tk.debt.lookups
     /\ tk.token.error = tk.debt.error
     /\ tk.token.pc = "returned" =>
          LET t == tk.token.result
              d == tk.debt.result IN
          /\ DOMAIN t = DOMAIN d
          /\ \A fld \in DOMAIN t \ {"type", "status"} : t[fld] = d[fld]
          /\ t.type = "token" /\ d.type = "debt"
          /\ t.status = tk.token.status /\ d.status = "borrowed"

\* an untracked token of 6 decimals held as 'lent': catalog, batch and price lookup
C16_Witness ==
  /\ tk.pc = "pair" /\ tk.token.pc = "returned" /\ tk.debt.pc = "returned"
  /\ tk.token.address = <<"c", "F">>
  /\ tk.token.result.status = "lent" /\ tk.debt.result.status = "borrowed"
  /\ tk.debt.result.balance = Balance(tk.debt.rawBalance, 6)
  /\ Len(tk.debt.lookups) = 3

-----------------------------------------------------------------------------
(* getWalletBalance: getWalletNativeTokenBalance, then getWalletTokenBalance. *)
(* g is the one frame of the three functions, which never run concurrently;   *)
(* the branches of getWalletTokenBalance awaiting addTrackedToken are          *)
(* g.pending, and g.attempts logs the endpoints asked for the balance.         *)

\* data = getChainTokenData(chain); if(data) { addresses = data.tokens.map(token => token.address);
\*   multicallResults = await multicallOneMethodQuery(chain, addresses, minABI, 'balanceOf', [wallet]) ...
\* } return tokens
GetWalletTokenBalanceBegin(s) ==
  LET data == getChainTokenData(s.chain) IN
  IF data # undefined
    THEN [s EXCEPT !.pc = "batch", !.batches = @ + 1,
                   !.addresses = [i \in DOMAIN data.tokens |-> data.tokens[i].address]]
    ELSE [s EXCEPT !.pc = "returned"]

\* while(!balance && errors < maxQueryRetries) { try { ... await getBalance ... } ... }
\* if(balance && balance > 0) { await addNativeToken(chain, balance, wallet) ... } return []
\* and, back in getWalletBalance, the call of getWalletTokenBalance
GetWalletNativeTokenBalanceLoop(s) ==
  LET noBalance == s.balance = undefined \/ s.balance.n = 0 IN
  IF noBalance /\ s.errors < maxQueryRetries
    THEN [s EXCEPT !.pc = "getBalance", !.attempts = Append(@, s.rpcID)]
  ELSE IF ~noBalance /\ s.balance.n > 0
    THEN [s EXCEPT !.pc = "addNativeToken"]
  ELSE GetWalletTokenBalanceBegin(s)

\* let type = 'token'; ... balance = rawBalance / (10 ** decimals);
\* price = await getTokenPrice(chain, address, decimals); return { ... }
addTrackedToken(chain, location, status, token, rawBalance, owner, price) ==
  [type |-> "token", chain |-> chain, location |-> location, status |-> status,
   owner |-> owner, symbol |-> token.symbol, address |-> token.address,
   balance |-> Balance(rawBalance, token.decimals), price |-> price, logo |-> token.logo]

GetWalletTokenBalanceBranchesAnyBalance(tokens, multicallResults) ==
  { i \in DOMAIN tokens : tokens[i].address \in DOMAIN multicallResults }

\* balanceResults = multicallResults[token.address]; if(balanceResults) {
\*   rawBalance = parseBN(balanceResults[0]); if(rawBalance > 0) { await addTrackedToken(...) } }
\* the branches that reach the await
GetWalletTokenBalanceBranches(tokens, multicallResults) ==
  { i \in DOMAIN tokens :
      /\ tokens[i].address \in DOMAIN multicallResults
      /\ parseBN(multicallResults[tokens[i].address][1]).n > 0 }

\* await Promise.all(promises); return tokens; and walletBalance.push(...tokens)
GetWalletTokenBalanceJoin(s) ==
  IF s.pending = {} THEN [s EXCEPT !.pc = "returned", !.walletBalance = @ \o s.tokens]
  ELSE s

\* getWalletBalance(chain, wallet) is called
GetWalletBalance(chain) ==
  /\ g.pc = "idle"
  /\ g' = GetWalletNativeTokenBalanceLoop(
            [pc |-> "start", chain |-> chain, balance |-> undefined, errors |-> 0,
             rpcID |-> 0, attempts |-> << >>, zeros |-> 0, walletBalance |-> << >>,
             addresses |-> << >>, batches |-> 0, f |-> << >>, raw |-> << >>,
             multicallResults |-> undefined, pending |-> {}, tokens |-> << >>,
             error |-> NoError])
  /\ UNCHANGED <<chains, q, mc, tk, fo>>

\* the awaited getBalance resolves to the balance o.value, or throws:
\* catch { if(++rpcID >= chains[chain].rpcs.length) { errors++; rpcID = 0; } }
\* A wallet holding nothing is read at most MaxFalsy times.
GetBalanceSettles(o) ==
  /\ g.pc = "getBalance"
  /\ (o.ok /\ o.value.n = 0) => g.zeros < MaxFalsy
  /\ g' = GetWalletNativeTokenBalanceLoop(
            IF o.ok
              THEN [g EXCEPT !.balance = o.value,
                             !.zeros = IF o.value.n = 0 THEN @ + 1 ELSE @]
            ELSE IF g.rpcID + 1 >= chains[g.chain]
              THEN [g EXCEPT !.errors = @ + 1, !.rpcID = 0]
            ELSE [g EXCEPT !.rpcID = @ + 1])
  /\ UNCHANGED <<chains, q, mc, tk, fo>>

\* the awaited addNativeToken returns its record, getWalletNativeTokenBalance
\* returns [newToken] and getWalletTokenBalance is called
AddNativeTokenResolves(price) ==
  /\ g.pc = "addNativeToken"
  /\ LET newToken ==
           AddNativeTokenReturn(AddNativeTokenBegin(g.chain, g.balance, "wallet"), price).result IN
     g' = GetWalletTokenBalanceBegin([g EXCEPT !.walletBalance = << newToken >>])
  /\ UNCHANGED <<chains, q, mc, tk, fo>>

\* the awaited multicallOneMethodQuery raises multicallQuery's error, or returns
\* its mapping, the helper reporting the success flags o.f and the contracts
\* answering the balances o.raw; the branches then run to their first await
WalletBatchSettles(o) ==
  /\ g.pc = "batch"
  /\ LET data == getChainTokenData(g.chain)
         res == [i \in DOMAIN g.addresses |->
                   [callsReturnContext |->
                      << [reference |-> "", success |-> o.f[i],
                          returnValues |-> IF o.f[i] THEN << BigNumber(o.raw[i]) >> ELSE << >>] >>]]
         byAddress == [a \in { g.addresses[i] : i \in DOMAIN g.addresses } |->
                         res[CHOOSE i \in DOMAIN g.addresses : g.addresses[i] = a]]
         multicallResults == OneMethodResults(g.addresses, byAddress) IN
     g' = IF ~o.ok
            THEN [g EXCEPT !.pc = "raised", !.error = InvalidMulticallQuery(g.chain, o.err)]
            ELSE GetWalletTokenBalanceJoin(
                   [g EXCEPT !.pc = "join", !.f = o.f, !.raw = o.raw,
                             !.multicallResults = [results |-> multicallResults],
                             !.pending = GetWalletTokenBalanceBranches(data.tokens, multicallResults)])
  /\ UNCHANGED <<chains, q, mc, tk, fo>>

\* the addTrackedToken awaited by the branch of token i returns its record:
\* tokens.push(newToken); the join resolves when it was the last branch
AddTrackedTokenResolves(i, price) ==
  /\ g.pc = "join" /\ i \in g.pending
  /\ LET token == getChainTokenData(g.chain).tokens[i]
         rawBalance == parseBN(g.multicallResults.results[token.address][1])
         newToken == addTrackedToken(g.chain, "wallet", "none", token, rawBalance, "wallet", price) IN
     g' = GetWalletTokenBalanceJoin(
            [g EXCEPT !.pending = @ \ {i}, !.tokens = Append(@, newToken)])
  /\ UNCHANGED <<chains, q, mc, tk, fo>>

NextWallet ==
  \/ \E c \in Chains : GetWalletBalance(c)
  \/ \E b \in RawBalances \cup { Sci(0, 0) } : GetBalanceSettles([ok |-> TRUE, value |-> b])
  \/ GetBalanceSettles([ok |-> FALSE])
  \/ \E p \in PriceValues : AddNativeTokenResolves(p)
  \/ \E err \in HelperErrors : WalletBatchSettles([ok |-> FALSE, err |-> err])
  \* a tracked token of which the wallet holds nothing, 1.5 or 20 units
  \/ /\ g.pc = "batch"
     /\ \E f \in [DOMAIN g.addresses -> BOOLEAN],
           raw \in [DOMAIN g.addresses -> { Sci(0, 0), Sci(15, 5), Sci(2, 19) }] :
          WalletBatchSettles([ok |-> TRUE, f |-> f, raw |-> raw])
  \/ /\ g.pc = "join"
     /\ \E i \in g.pending, p \in PriceValues : AddTrackedTokenResolves(i, p)

SpecWallet == InitQuery /\ [][NextWallet]_vars

(* Claims about getWalletBalance *)

\* the NativeToken records that getWalletNativeTokenBalance has returned
NativeRecords == SelectSeq(g.walletBalance, LAMBDA t : t.type = "nativeToken")

\* C22: getWalletNativeTokenBalance ends whatever the endpoints answer and never
\* raises: once the balance was read as zero it has returned the empty list,
\* after a positive read it returns one NativeToken record, and when every
\* endpoint failed in all 3 passes it returns the empty list after k*3 attempts.
C22_NativeBalanceTerminates ==
  g.pc # "idle" =>
    LET running == g.pc \in {"getBalance", "addNativeToken"} IN
    /\ g.zeros > 0 => (~running /\ NativeRecords = << >>)
    /\ (g.balance # undefined /\ g.balance.n > 0) =>
          \/ g.pc = "addNativeToken"
          \/ /\ Len(NativeRecords) = 1 /\ NativeRecords[1].balance = Balance(g.balance, 18)
    /\ (g.errors = maxQueryRetries /\ g.zeros = 0) =>
          /\ ~running /\ NativeRecords = << >>
          /\ Len(g.attempts) = chains[g.chain] * maxQueryRetries
    /\ running => g.error = NoError

\* the records of getWalletTokenBalance, and the tracked tokens that are to have one
WalletTokenRecords == IF g.pc = "returned"
                        THEN SelectSeq(g.walletBalance, LAMBDA t : t.type = "token")
                        ELSE g.tokens

\* C23: getWalletTokenBalance makes one batch call, to every tracked token's
\* address; whatever the order in which the branches resolve, it returns one
\* record for each tracked token whose call succeeded with a raw balance above
\* zero and no other record, so never a record with a zero balance.
C23_OneRecordPerPositiveBalance ==
  (g.pc \in {"join", "returned"} /\ g.batches > 0) =>
    LET tokens == getChainTokenData(g.chain).tokens
        held == { i \in DOMAIN tokens : g.f[i] /\ g.raw[i].n > 0 }
        of(i) == { k \in DOMAIN WalletTokenRecords :
                     WalletTokenRecords[k].address = tokens[i].address } IN
    /\ g.batches = 1
    /\ g.addresses = [i \in DOMAIN tokens |-> tokens[i].address]
    /\ \A k \in DOMAIN WalletTokenRecords :
          /\ WalletTokenRecords[k].balance.n > 0
          /\ \E i \in held :
                /\ k \in of(i)
                /\ WalletTokenRecords[k].symbol = tokens[i].symbol
                /\ WalletTokenRecords[k].balance = Balance(g.raw[i], tokens[i].decimals)
                /\ WalletTokenRecords[k].location = "wallet"
                /\ WalletTokenRecords[k].status = "none"
    /\ \A i \in DOMAIN tokens : Cardinality(of(i)) <= 1
    /\ g.pc = "returned" =>
          /\ Len(WalletTokenRecords) = Cardinality(held)
          /\ \A i \in held : Cardinality(of(i)) = 1

\* both tracked tokens of avax held, USDC's branch resolving before WAVAX's
C23_Witness ==
  /\ g.pc = "returned" /\ g.chain = "avax" /\ g.batches = 1
  /\ Len(WalletTokenRecords) = 2
  /\ WalletTokenRecords[1].symbol = "USDC" /\ WalletTokenRecords[1].balance = Sci(15, -1)
  /\ WalletTokenRecords[2].symbol = "WAVAX" /\ WalletTokenRecords[2].balance = Sci(20, 0)

-----------------------------------------------------------------------------
(* The adapters: get(wallet) of projects/avax/aave and projects/avax/axial.  *)
(* g is the frame of get, fo the frame of getMarketBalances with one branch  *)
(* per market.  A step runs one frame from an await to the next; the calls   *)
(* a frame awaits (axios.get, query, addToken, addDebtToken, and the other   *)
(* discovery functions getMarketBalancesV3 and getPoolBalances) either       *)
(* raise or return a value.                                                  *)

\* the most markets the API response of the model lists
MaxMarkets == 2

\* the AaveAPIResponse entries the API may list, in its order
Markets ==
  << [underlyingAsset |-> <<"B", "3">>, borrowingEnabled |-> TRUE, isActive |-> TRUE],
     [underlyingAsset |-> <<"A", "7">>, borrowingEnabled |-> FALSE, isActive |-> TRUE],
     [underlyingAsset |-> <<"c", "F">>, borrowingEnabled |-> TRUE, isActive |-> FALSE] >>

\* 0xB31f66AA3C1e785363F0875A1B74E27b85FD66c7
wavax == <<"B", "3">>

\* parseInt of the balances a query may return
QueryBalances == {0, 7}

\* the record addToken / addDebtToken resolves to, as far as the adapter sets it
Holding(type, status, address, rawBalance, info) ==
  [type |-> type, chain |-> "avax", location |-> "aave", status |-> status,
   owner |-> "wallet", address |-> address, rawBalance |-> rawBalance, info |-> info]

\* lists getMarketBalancesV3 may resolve to
V3Results ==
  { << >>,
    << Holding("token", "lent", wavax, 7, "liquidityRate") >>,
    << Holding("token", "lent", wavax, 7, "liquidityRate"),
       Holding("debt", "borrowed", wavax, 7, "stableBorrowRate") >> }

\* lists getPoolBalances may resolve to
PoolResults ==
  { << >>,
    << [type |-> "lpToken", chain |-> "avax", location |-> "axial", status |-> "staked",
        owner |-> "wallet", address |-> <<"5", "7">>, rawBalance |-> 7, info |-> "none"] >> }

(* getMarketBalances *)

\* markets.map(market => (async () => { ... })()): every branch runs up to its first await
MarketBalancesBegin(markets) ==
  [pc |-> "pending", markets |-> markets, balances |-> << >>,
   branches |-> [i \in DOMAIN markets |-> [pc |-> "lentQuery", balance |-> 0, pushed |-> << >>]]]

\* after the lending part: if(market.borrowingEnabled) await query(... variableDebtTokenAddress ...)
AfterLending(market) == IF market.borrowingEnabled THEN "debtQuery" ELSE "done"

\* balances.push(newToken), by branch i
BranchPush(f, i, token, pc) ==
  [f EXCEPT !.balances = Append(@, token),
            !.branches[i].pushed = Append(@, token),
            !.branches[i].pc = pc]

\* await Promise.all(promises): rejects with the first branch that raises,
\* resolves once every branch has completed
PromiseAll(f) ==
  IF f.pc # "pending" THEN f
  ELSE IF \E i \in DOMAIN f.branches : f.branches[i].pc = "raised"
         THEN [f EXCEPT !.pc = "rejected"]
         ELSE IF \A i \in DOMAIN f.branches : f.branches[i].pc = "done"
                THEN [f EXCEPT !.pc = "resolved"]
                ELSE f

(* get *)

\* the discovery phases of each adapter's get, in order
Phases(adapter) ==
  IF adapter = "aave"
    THEN << "markets", "getMarketBalances", "getIncentives", "getMarketBalancesV3" >>
    ELSE << "getPoolBalances" >>

\* let balance = []; try { first await
GetBegin(adapter) ==
  [pc |-> IF adapter = "aave" THEN "markets" ELSE "poolBalances",
   adapter |-> adapter, balance |-> << >>, rewards |-> 0, result |-> << >>,
   phases |-> << >>]

GetOnFailurePropagates(s, phase) ==
  [s EXCEPT !.pc = "raised",
            !.phases = Append(@, [name |-> phase, outcome |-> "raised", value |-> << >>])]

\* catch { console.error(...) } return balance
GetOnFailure(s, phase) ==
  [s EXCEPT !.pc = "returned", !.result = s.balance,
            !.phases = Append(@, [name |-> phase, outcome |-> "raised", value |-> << >>])]

\* balance.push(...(await phase))
GetPush(s, phase, list) ==
  [s EXCEPT !.balance = @ \o list,
            !.phases = Append(@, [name |-> phase, outcome |-> "returned", value |-> list])]

\* return balance
GetReturn(s) == [s EXCEPT !.pc = "returned", !.result = s.balance]

\* axios.get resolved: get awaits getMarketBalances(markets, wallet)
GetAfterMarkets(s) ==
  [s EXCEPT !.pc = "marketBalances",
            !.phases = Append(@, [name |-> "markets", outcome |-> "returned", value |-> << >>])]

\* getMarketBalances resolved: push, then getIncentives awaits its query
GetAfterMarketBalances(s, list) ==
  [GetPush(s, "getMarketBalances", list) EXCEPT !.pc = "incentivesQuery"]

\* getIncentives resolved: push, then getMarketBalancesV3 is awaited
GetAfterIncentives(s, list) ==
  [GetPush(s, "getIncentives", list) EXCEPT !.pc = "marketBalancesV3"]

\* get, while it awaits getMarketBalances, resumes when Promise.all settles
GetResume(s, f) ==
  IF s.pc # "marketBalances" THEN s
  ELSE IF f.pc = "resolved" THEN GetAfterMarketBalances(s, f.balances)
  ELSE IF f.pc = "rejected" THEN GetOnFailure(s, "getMarketBalances")
  ELSE s

\* a step of branch i of getMarketBalances that leaves the frame f
BranchStep(f) ==
  /\ fo' = PromiseAll(f)
  /\ g' = GetResume(g, fo')
  /\ UNCHANGED <<chains, q, mc, tk>>

\* a caller invokes get(wallet) of the adapter
Get(adapter) ==
  /\ g.pc = "idle"
  /\ g' = GetBegin(adapter)
  /\ UNCHANGED <<chains, q, mc, tk, fo>>

\* axios.get resolves with n markets; getMarketBalances starts its branches
MarketsFetched(n) ==
  /\ g.pc = "markets"
  /\ fo' = PromiseAll(MarketBalancesBegin(SubSeq(Markets, 1, n)))
  /\ g' = GetResume(GetAfterMarkets(g), fo')
  /\ UNCHANGED <<chains, q, mc, tk>>

\* axios.get rejects
MarketsFetchFails ==
  /\ g.pc = "markets"
  /\ g' = GetOnFailure(g, "markets")
  /\ UNCHANGED <<chains, q, mc, tk, fo>>

\* branch i: query(aTokenAddress, 'balanceOf') returns b
LentQueryReturns(i, b) ==
  /\ fo.pc # "idle" /\ i \in DOMAIN fo.branches
  /\ fo.branches[i].pc = "lentQuery"
  /\ BranchStep(IF b > 0
                  THEN [fo EXCEPT !.branches[i].pc = "lentAdd", !.branches[i].balance = b]
                  ELSE [fo EXCEPT !.branches[i].pc = AfterLending(fo.markets[i])])

\* branch i: addToken returns; newToken.info = ...; balances.push(newToken)
LentAddTokenReturns(i) ==
  /\ fo.pc # "idle" /\ i \in DOMAIN fo.branches
  /\ fo.branches[i].pc = "lentAdd"
  /\ BranchStep(BranchPush(fo, i,
                           Holding("token", "lent", fo.markets[i].underlyingAsset,
                                   fo.branches[i].balance, "avg7DaysLiquidityRate"),
                           AfterLending(fo.markets[i])))

\* branch i: query(variableDebtTokenAddress, 'balanceOf') returns b
DebtQueryReturns(i, b) ==
  /\ fo.pc # "idle" /\ i \in DOMAIN fo.branches
  /\ fo.branches[i].pc = "debtQuery"
  /\ BranchStep(IF b > 0
                  THEN [fo EXCEPT !.branches[i].pc = "debtAdd", !.branches[i].balance = b]
                  ELSE [fo EXCEPT !.branches[i].pc = "done"])

\* branch i: addDebtToken returns; newToken.info = ...; balances.push(newToken)
DebtAddTokenReturns(i) ==
  /\ fo.pc # "idle" /\ i \in DOMAIN fo.branches
  /\ fo.branches[i].pc = "debtAdd"
  /\ BranchStep(BranchPush(fo, i,
                           Holding("debt", "borrowed", fo.markets[i].underlyingAsset,
                                   fo.branches[i].balance, "avg7DaysVariableBorrowRate"),
                           "done"))

\* branch i: the query or build operation it awaits raises
BranchRaises(i) ==
  /\ fo.pc # "idle" /\ i \in DOMAIN fo.branches
  /\ fo.branches[i].pc \in {"lentQuery", "lentAdd", "debtQuery", "debtAdd"}
  /\ BranchStep([fo EXCEPT !.branches[i].pc = "raised"])

\* getIncentives: query(incentives, 'getUserUnclaimedRewards') returns r
IncentivesQueryReturns(r) ==
  /\ g.pc = "incentivesQuery"
  /\ g' = IF r > 0 THEN [g EXCEPT !.pc = "incentivesAdd", !.rewards = r]
                   ELSE GetAfterIncentives(g, << >>)
  /\ UNCHANGED <<chains, q, mc, tk, fo>>

\* getIncentives: addToken(chain, project, 'unclaimed', wavax, rewards, wallet) returns
IncentivesAddTokenReturns ==
  /\ g.pc = "incentivesAdd"
  /\ g' = GetAfterIncentives(g, << Holding("token", "unclaimed", wavax, g.rewards, "none") >>)
  /\ UNCHANGED <<chains, q, mc, tk, fo>>

\* getIncentives: its query or its addToken raises
IncentivesRaises ==
  /\ g.pc \in {"incentivesQuery", "incentivesAdd"}
  /\ g' = GetOnFailure(g, "getIncentives")
  /\ UNCHANGED <<chains, q, mc, tk, fo>>

\* getMarketBalancesV3 resolves
MarketBalancesV3Returns(list) ==
  /\ g.pc = "marketBalancesV3"
  /\ g' = GetReturn(GetPush(g, "getMarketBalancesV3", list))
  /\ UNCHANGED <<chains, q, mc, tk, fo>>

\* getMarketBalancesV3 rejects
MarketBalancesV3Raises ==
  /\ g.pc = "marketBalancesV3"
  /\ g' = GetOnFailure(g, "getMarketBalancesV3")
  /\ UNCHANGED <<chains, q, mc, tk, fo>>

\* axial: getPoolBalances resolves
PoolBalancesReturns(list) ==
  /\ g.pc = "poolBalances"
  /\ g' = GetReturn(GetPush(g, "getPoolBalances", list))
  /\ UNCHANGED <<chains, q, mc, tk, fo>>

\* axial: getPoolBalances rejects
PoolBalancesRaises ==
  /\ g.pc = "poolBalances"
  /\ g' = GetOnFailure(g, "getPoolBalances")
  /\ UNCHANGED <<chains, q, mc, tk, fo>>

InitAdapter ==
  /\ InitChains
  /\ g = Idle /\ fo = Idle
  /\ q = QueryIdle /\ mc = Idle /\ tk = Idle

NextAdapter ==
  \/ \E a \in {"aave", "axial"} : Get(a)
  \/ \E n \in 0..Min(MaxMarkets, Len(Markets)) : MarketsFetched(n)
  \/ MarketsFetchFails
  \/ \E i \in 1..MaxMarkets, b \in QueryBalances : LentQueryReturns(i, b)
  \/ \E i \in 1..MaxMarkets : LentAddTokenReturns(i)
  \/ \E i \in 1..MaxMarkets, b \in QueryBalances : DebtQueryReturns(i, b)
  \/ \E i \in 1..MaxMarkets : DebtAddTokenReturns(i)
  \/ \E i \in 1..MaxMarkets : BranchRaises(i)
  \/ \E r \in QueryBalances : IncentivesQueryReturns(r)
  \/ IncentivesAddTokenReturns
  \/ IncentivesRaises
  \/ \E list \in V3Results : MarketBalancesV3Returns(list)
  \/ MarketBalancesV3Raises
  \/ \E list \in PoolResults : PoolBalancesReturns(list)
  \/ PoolBalancesRaises

SpecAdapter == InitAdapter /\ [][NextAdapter]_vars

-----------------------------------------------------------------------------
(* Claims about the adapters *)

Range(seq) == { seq[i] : i \in DOMAIN seq }

RECURSIVE Flatten(_)
\* the concatenation of a sequence of lists
Flatten(lists) ==
  IF lists = << >> THEN << >> ELSE Head(lists) \o Flatten(Tail(lists))

\* every branch of getMarketBalances has completed or raised
AllSettled == \A i \in DOMAIN fo.branches : fo.branches[i].pc \in {"done", "raised"}

RaisedBranches == { i \in DOMAIN fo.branches : fo.branches[i].pc = "raised" }

\* what getMarketBalances hands its caller: a rejected join hands over nothing
JoinedResult == IF fo.pc = "resolved" THEN Range(fo.balances) ELSE {}

\* C7 (as claimed): when a branch of the fan-out raises, the joined result is
\* the union of the holdings the other branches produced.
C7_FanOutIsolation ==
  (fo.pc # "idle" /\ AllSettled /\ RaisedBranches # {}) =>
     JoinedResult =
       UNION { Range(fo.branches[i].pushed) : i \in DOMAIN fo.branches \ RaisedBranches }

\* C8: get never propagates an error; it returns the concatenation of the
\* results of the discovery phases that completed, which are the phases, in
\* the adapter's order, before the one that failed (all of them if none did).
C8_GetCatchesAndReturnsPartial ==
  /\ g.pc # "raised"
  /\ g.pc = "returned" =>
       LET ph == Phases(g.adapter)
           n == Len(g.phases)
           completed == SelectSeq(g.phases, LAMBDA e : e.outcome = "returned") IN
       /\ n <= Len(ph)
       /\ \A i \in 1..n : g.phases[i].name = ph[i]
       /\ \A i \in 1..(n - 1) : g.phases[i].outcome = "returned"
       /\ (g.phases[n].outcome = "returned") => n = Len(ph)
       /\ g.result = Flatten([i \in DOMAIN completed |-> completed[i].value])
       /\ (g.adapter = "aave" /\ n >= 2 /\ g.phases[2].outcome = "returned") =>
            (fo.pc = "resolved" /\ g.phases[2].value = fo.balances)

C8_Witness ==
  /\ g.pc = "returned" /\ g.adapter = "aave"
  /\ Len(g.phases) = 4 /\ g.phases[4].outcome = "raised"
  /\ Len(g.result) >= 2
  /\ g.result[Len(g.result)].status = "unclaimed"

-----------------------------------------------------------------------------
(* getMarketBalancesV3 and getIncentivesV3 of projects/avax/aave, step by     *)
(* step.  fo is the frame of getMarketBalancesV3 with one branch per asset;   *)
(* fo.incentives is the frame of getIncentivesV3 once it has been called.     *)
(* A balance of getUserReserveData is 0 or 7: fo.branches[i].data is the set  *)
(* of the balances above zero, among "aToken", "stable" and "variable".       *)

\* if(assets.length > 0) { assets.map(asset => (async () => { await query(...
\*   'getReserveTokensAddresses', [asset]) ... })()); await Promise.all(promises) ... } else { return [] }
getIncentivesV3(f, assets) ==
  IF Len(assets) > 0
    THEN [f EXCEPT !.pc = "incentives",
                   !.incentives = [pc |-> "getReserveTokensAddresses", assets |-> assets,
                                   queries |-> Len(assets)]]
    ELSE [f EXCEPT !.pc = "returned",
                   !.incentives = [pc |-> "returned", assets |-> assets, queries |-> 0]]

\* await Promise.all(promises); balances.push(...(await getIncentivesV3(assetsWithBalance, wallet)))
MarketBalancesV3Join(f) ==
  IF PromiseAll(f).pc = "resolved" THEN getIncentivesV3(f, f.assetsWithBalance)
  ELSE IF PromiseAll(f).pc = "rejected" THEN [f EXCEPT !.pc = "raised"]
  ELSE f

MarketBalancesV3BranchLentOnly(f, i, data) ==
  LET b == f.branches[i]
      asset == f.assets[i]
      d == IF b.pc = "getUserReserveData" THEN data ELSE b.data
      newToken == CASE b.pc = "addToken" -> << Holding("token", "lent", asset, 7, "liquidityRate") >>
                    [] b.pc = "addDebtToken stable" ->
                         << Holding("debt", "borrowed", asset, 7, "stableBorrowRate") >>
                    [] b.pc = "getReserveData" ->
                         << Holding("debt", "borrowed", asset, 7, "variableBorrowRate") >>
                    [] OTHER -> << >>
      next == CASE b.pc = "addDebtToken variable" -> "getReserveData"
                [] b.pc = "getUserReserveData" /\ "aToken" \in d -> "addToken"
                [] b.pc \in {"getUserReserveData", "addToken"} /\ "stable" \in d -> "addDebtToken stable"
                [] b.pc \in {"getUserReserveData", "addToken", "addDebtToken stable"}
                     /\ "variable" \in d -> "addDebtToken variable"
                [] OTHER -> "done" IN
  MarketBalancesV3Join(
    [f EXCEPT !.balances = @ \o newToken,
              !.branches[i] = [pc |-> next, data |-> d],
              !.assetsWithBalance = IF next = "done" /\ "aToken" \in d THEN Append(@, asset) ELSE @])

\* the branch of asset i from the await that has resolved to its next await or
\* its end; data is what getUserReserveData resolved to
MarketBalancesV3Branch(f, i, data) ==
  LET b == f.branches[i]
      asset == f.assets[i]
      d == IF b.pc = "getUserReserveData" THEN data ELSE b.data
      newToken == CASE b.pc = "addToken" -> << Holding("token", "lent", asset, 7, "liquidityRate") >>
                    [] b.pc = "addDebtToken stable" ->
                         << Holding("debt", "borrowed", asset, 7, "stableBorrowRate") >>
                    [] b.pc = "getReserveData" ->
                         << Holding("debt", "borrowed", asset, 7, "variableBorrowRate") >>
                    [] OTHER -> << >>
      next == CASE b.pc = "addDebtToken variable" -> "getReserveData"
                [] b.pc = "getUserReserveData" /\ "aToken" \in d -> "addToken"
                [] b.pc \in {"getUserReserveData", "addToken"} /\ "stable" \in d -> "addDebtToken stable"
                [] b.pc \in {"getUserReserveData", "addToken", "addDebtToken stable"}
                     /\ "variable" \in d -> "addDebtToken variable"
                [] OTHER -> "done" IN
  MarketBalancesV3Join(
    [f EXCEPT !.balances = @ \o newToken,
              !.branches[i] = [pc |-> next, data |-> d],
              !.assetsWithBalance = IF next = "done" /\ d # {} THEN Append(@, asset) ELSE @])

\* getMarketBalancesV3(wallet) is called: await query(... 'getReservesList' ...)
GetMarketBalancesV3 ==
  /\ fo.pc = "idle"
  /\ fo' = [pc |-> "getReservesList", assets |-> << >>, branches |-> << >>,
            balances |-> << >>, assetsWithBalance |-> << >>, incentives |-> undefined]
  /\ UNCHANGED <<chains, q, mc, tk, g>>

\* the awaited getReservesList raises, or resolves to o.assets: every branch
\* runs up to its await of getUserReserveData
ReservesListSettles(o) ==
  /\ fo.pc = "getReservesList"
  /\ fo' = IF ~o.ok THEN [fo EXCEPT !.pc = "raised"]
           ELSE MarketBalancesV3Join(
                  [fo EXCEPT !.pc = "pending", !.assets = o.assets,
                             !.branches = [i \in DOMAIN o.assets |->
                                             [pc |-> "getUserReserveData", data |-> {}]]])
  /\ UNCHANGED <<chains, q, mc, tk, g>>

\* what branch i awaits (query, addToken or addDebtToken) raises, or resolves;
\* o.data is the answer of getUserReserveData
MarketBalancesV3BranchSettles(i, o) ==
  /\ fo.pc \in {"pending", "raised"}
  /\ fo.branches[i].pc \notin {"done", "raised"}
  /\ fo' = IF o.ok THEN MarketBalancesV3Branch(fo, i, o.data)
           ELSE MarketBalancesV3Join([fo EXCEPT !.branches[i].pc = "raised"])
  /\ UNCHANGED <<chains, q, mc, tk, g>>

\* what getIncentivesV3 awaits raises, or resolves: the join of the
\* getReserveTokensAddresses queries; getUserRewards with o.rewards; addToken
IncentivesV3Settles(o) ==
  /\ fo.pc = "incentives"
  /\ LET s == fo.incentives
         newToken == Holding("token", "unclaimed", wavax, s.rewards, "none") IN
     fo' = CASE ~o.ok -> [fo EXCEPT !.pc = "raised", !.incentives.pc = "raised"]
             [] o.ok /\ s.pc = "getReserveTokensAddresses" ->
                  [fo EXCEPT !.incentives = [pc |-> "getUserRewards", assets |-> s.assets,
                                             queries |-> s.queries + 1]]
             [] o.ok /\ s.pc = "getUserRewards" /\ o.rewards > 0 ->
                  [fo EXCEPT !.incentives = [pc |-> "addToken", assets |-> s.assets,
                                             queries |-> s.queries, rewards |-> o.rewards]]
             [] o.ok /\ s.pc = "getUserRewards" /\ ~(o.rewards > 0) ->
                  [fo EXCEPT !.pc = "returned", !.incentives.pc = "returned"]
             [] o.ok /\ s.pc = "addToken" ->
                  [fo EXCEPT !.pc = "returned", !.incentives.pc = "returned",
                             !.balances = Append(@, newToken)]
  /\ UNCHANGED <<chains, q, mc, tk, g>>

NextV3 ==
  \/ GetMarketBalancesV3
  \/ ReservesListSettles([ok |-> FALSE])
  \* the reserves list: none, WAVAX, or WAVAX and USDC, ...
  \/ \E n \in 0..MaxMarkets :
       ReservesListSettles([ok |-> TRUE,
                            assets |-> SubSeq(<< wavax, <<"A", "7">>, <<"c", "F">>, <<"5", "7">> >>, 1, n)])
  \/ /\ fo.pc \in {"pending", "raised"}
     /\ \E i \in DOMAIN fo.branches : MarketBalancesV3BranchSettles(i, [ok |-> FALSE])
  \/ /\ fo.pc \in {"pending", "raised"}
     /\ \E i \in DOMAIN fo.branches, data \in SUBSET {"aToken", "stable", "variable"} :
          MarketBalancesV3BranchSettles(i, [ok |-> TRUE, data |-> data])
  \/ IncentivesV3Settles([ok |-> FALSE])
  \/ \E rewards \in QueryBalances : IncentivesV3Settles([ok |-> TRUE, rewards |-> rewards])

\* the endpoints of the registry play no part here: one per chain
InitOneEndpoint ==
  /\ chains = [c \in Chains |-> 1]
  /\ g = Idle /\ fo = Idle
  /\ q = QueryIdle /\ mc = Idle /\ tk = Idle

SpecV3 == InitOneEndpoint /\ [][NextV3]_vars

(* Claims about getMarketBalancesV3 *)

\* C24: getIncentivesV3 is called only once every per-asset branch has
\* completed; its assets are those whose aToken balance, stable debt or variable
\* debt is above zero, each once; when there is none it issues no query and
\* no incentive record is added.
C24_IncentivesAfterBranches ==
  (fo.pc # "idle" /\ fo.incentives # undefined) =>
    LET withBalance == { i \in DOMAIN fo.assets : fo.branches[i].data # {} } IN
    /\ \A i \in DOMAIN fo.branches : fo.branches[i].pc = "done"
    /\ Len(fo.incentives.assets) = Cardinality(withBalance)
    /\ { fo.incentives.assets[k] : k \in DOMAIN fo.incentives.assets }
         = { fo.assets[i] : i \in withBalance }
    /\ withBalance = {} =>
         /\ fo.incentives.queries = 0 /\ fo.pc = "returned"
         /\ \A k \in DOMAIN fo.balances : fo.balances[k].status # "unclaimed"

\* getIncentivesV3 called with USDC before WAVAX, USDC held through stable debt only
C24_Witness ==
  /\ fo.pc = "returned" /\ fo.incentives # undefined
  /\ fo.incentives.assets = << <<"A", "7">>, wavax >>
  /\ fo.branches[2].data = {"stable"}
  /\ fo.balances[Len(fo.balances)].status = "unclaimed"

-----------------------------------------------------------------------------
(* getProjectBalance.  mc is its frame here, g the frame of the get(wallet)  *)
(* of the adapter it loads, which runs as in the adapters' section.          *)

\* the project list of each chain (projects.ts): the two adapters modelled
\* for avax; no adapter of poly is modelled
projects == [avax |-> << "aave", "axial" >>, poly |-> << >>]

GetProjectBalanceBeginReturnsEmpty(chain, project) ==
  [pc |-> IF \E i \in DOMAIN projects[chain] : projects[chain][i] = project
            THEN "import" ELSE "returned",
   chain |-> chain, project |-> project, projectBalance |-> << >>,
   loaded |-> << >>, error |-> NoError]

\* let projectBalance = []; if(projects[chain].includes(project)) { dapp = await import(...) ...
\* } else { throw new WeaverError(chain, null, `Unknown project: ${project}`) }
GetProjectBalanceBegin(chain, project) ==
  LET listed == \E i \in DOMAIN projects[chain] : projects[chain][i] = project IN
  [pc |-> IF listed THEN "import" ELSE "raised",
   chain |-> chain, project |-> project, projectBalance |-> << >>,
   loaded |-> << >>,
   error |-> IF listed THEN NoError
             ELSE [kind |-> "WeaverError", chain |-> chain,
                   description |-> << "Unknown project: ", project >>]]

\* getProjectBalance(chain, wallet, project) is called
GetProjectBalance(chain, project) ==
  /\ mc.pc = "idle"
  /\ mc' = GetProjectBalanceBegin(chain, project)
  /\ UNCHANGED <<chains, q, tk, fo, g>>

\* the awaited import resolves to the adapter's module: await dapp.get(wallet)
AdapterImported ==
  /\ mc.pc = "import" /\ g.pc = "idle"
  /\ mc' = [mc EXCEPT !.pc = "get", !.loaded = Append(@, << mc.chain, mc.project >>)]
  /\ g' = GetBegin(mc.project)
  /\ UNCHANGED <<chains, q, tk, fo>>

\* the awaited get(wallet) returns: projectBalance.push(...(balance)); return projectBalance
AdapterGetReturns ==
  /\ mc.pc = "get" /\ g.pc = "returned"
  /\ mc' = [mc EXCEPT !.pc = "returned", !.projectBalance = @ \o g.result]
  /\ UNCHANGED <<chains, q, tk, fo, g>>

NextProject ==
  \/ \E c \in Chains, p \in {"aave", "axial", "Aave", "benqi"} : GetProjectBalance(c, p)
  \/ AdapterImported
  \/ AdapterGetReturns
  \/ \E n \in 0..Min(MaxMarkets, Len(Markets)) : MarketsFetched(n)
  \/ MarketsFetchFails
  \/ \E i \in 1..MaxMarkets, b \in QueryBalances : LentQueryReturns(i, b)
  \/ \E i \in 1..MaxMarkets : LentAddTokenReturns(i)
  \/ \E i \in 1..MaxMarkets, b \in QueryBalances : DebtQueryReturns(i, b)
  \/ \E i \in 1..MaxMarkets : DebtAddTokenReturns(i)
  \/ \E i \in 1..MaxMarkets : BranchRaises(i)
  \/ \E r \in QueryBalances : IncentivesQueryReturns(r)
  \/ IncentivesAddTokenReturns
  \/ IncentivesRaises
  \/ \E list \in V3Results : MarketBalancesV3Returns(list)
  \/ MarketBalancesV3Raises
  \/ \E list \in PoolResults : PoolBalancesReturns(list)
  \/ PoolBalancesRaises

SpecProject == InitAdapter /\ [][NextProject]_vars

(* Claims about getProjectBalance *)

\* C26: for a project that is not in the chain's list getProjectBalance raises
\* an error, and no adapter is loaded or called; for a listed project it
\* returns the records that the adapter's get(wallet) returned, and no other.
C26_UnknownProjectRaises ==
  mc.pc # "idle" =>
    IF \E i \in DOMAIN projects[mc.chain] : projects[mc.chain][i] = mc.project
      THEN /\ mc.pc # "raised" /\ mc.error = NoError
           /\ mc.pc \in {"get", "returned"} =>
                (mc.loaded = << << mc.chain, mc.project >> >> /\ g.adapter = mc.project)
           /\ mc.pc = "returned" => (g.pc = "returned" /\ mc.projectBalance = g.result)
      ELSE /\ mc.pc = "raised" /\ mc.error.kind = "WeaverError"
           /\ mc.error.description = << "Unknown project: ", mc.project >>
           /\ mc.loaded = << >> /\ g = Idle /\ mc.projectBalance = << >>

\* the holdings of aave's get, handed on by getProjectBalance
C26_Witness ==
  /\ mc.pc = "returned" /\ mc.project = "aave"
  /\ Len(mc.projectBalance) >= 2 /\ mc.projectBalance = g.result

-----------------------------------------------------------------------------
(* fetchPoolIDsFromFactory of updates.ts.  fo is its frame: fo.events[i]     *)
(* tells whether event i carries args, fo.started[i] counts the branches     *)
(* started for event i, fo.pending maps the events whose branch is at an     *)
(* await to the query awaited, fo.sizes lists the sizes of the batches.      *)

\* let batchSize = 50
batchSize == 50

FetchBatchOverlapping(f, startBatch, endBatch) ==
  LET slice == { i \in DOMAIN f.events : startBatch <= i /\ i <= endBatch } IN
  [f EXCEPT !.pc = "pending", !.startBatch = startBatch, !.endBatch = endBatch,
            !.started = [i \in DOMAIN f.events |-> IF i \in slice THEN @[i] + 1 ELSE @[i]],
            !.pending = [i \in { j \in slice : f.events[j] } |-> "getPoolId"],
            !.sizes = Append(@, Cardinality(slice))]

\* creationEvents.slice(startBatch, endBatch).map(event => (async () => { (the
\* whole of creationEvents when it holds at most batchSize events)
\*   if(event.args) { ... poolID = await query('ftm', address, ..., 'getPoolId', []) ...
\* every branch of the slice runs up to its first await, or to its end
FetchBatch(f, startBatch, endBatch) ==
  LET slice == { i \in DOMAIN f.events : startBatch < i /\ i <= endBatch } IN
  [f EXCEPT !.pc = "pending", !.startBatch = startBatch, !.endBatch = endBatch,
            !.started = [i \in DOMAIN f.events |-> IF i \in slice THEN @[i] + 1 ELSE @[i]],
            !.pending = [i \in { j \in slice : f.events[j] } |-> "getPoolId"],
            !.sizes = Append(@, Cardinality(slice))]

RECURSIVE FetchLoop(_)
\* await Promise.all(promises), and what follows it: return poolIDs after the
\* one batch of at most batchSize events; otherwise startBatch += batchSize;
\* endBatch += batchSize; while(endBatch < creationEvents.length + batchSize) { ...
FetchLoop(f) ==
  IF DOMAIN f.pending # {} THEN f
  ELSE IF Len(f.events) <= batchSize THEN [f EXCEPT !.pc = "returned"]
  ELSE IF f.endBatch + batchSize < Len(f.events) + batchSize
    THEN FetchLoop(FetchBatch(f, f.startBatch + batchSize, f.endBatch + batchSize))
  ELSE [f EXCEPT !.pc = "returned", !.startBatch = @ + batchSize, !.endBatch = @ + batchSize]

\* fetchPoolIDsFromFactory(factory, currentBlock, ftm, ftmBackup) is called
FetchPoolIDsFromFactory ==
  /\ fo.pc = "idle"
  /\ fo' = [pc |-> "queryFilter", events |-> << >>, started |-> << >>, pending |-> << >>,
            sizes |-> << >>, poolIDs |-> << >>, startBatch |-> 0, endBatch |-> batchSize,
            raised |-> FALSE]
  /\ UNCHANGED <<chains, q, mc, tk, g>>

\* the awaited queryFilter, of the provider or of the backup provider, throws
\* or resolves to the events o.events
QueryFilterSettles(o) ==
  /\ fo.pc \in {"queryFilter", "queryFilter backup"}
  /\ fo' = IF o.ok
             THEN FetchLoop(FetchBatch([fo EXCEPT !.events = o.events,
                                                  !.started = [i \in DOMAIN o.events |-> 0]],
                                       0, batchSize))
           ELSE IF fo.pc = "queryFilter" THEN [fo EXCEPT !.pc = "queryFilter backup"]
           ELSE [fo EXCEPT !.pc = "returned", !.raised = TRUE]
  /\ UNCHANGED <<chains, q, mc, tk, g>>

\* the query awaited by the branch of event i throws: the join rejects and
\* catch(err) { console.error(err) } return poolIDs; or it resolves: getPoolId
\* to the pool's ID, getPoolTokens to a lastChangeBlock that is, or is not,
\* above currentBlock - beethovenMaxInactiveBlocks
PoolBranchSettles(i, o) ==
  /\ fo.pc = "pending" /\ i \in DOMAIN fo.pending
  /\ LET others == [j \in DOMAIN fo.pending \ {i} |-> fo.pending[j]] IN
     fo' = IF ~o.ok THEN [fo EXCEPT !.pc = "returned", !.raised = TRUE]
           ELSE IF fo.pending[i] = "getPoolId"
             THEN [fo EXCEPT !.pending[i] = "getPoolTokens"]
           ELSE FetchLoop([fo EXCEPT !.pending = others,
                                     !.poolIDs = IF o.active THEN Append(@, i) ELSE @])
  /\ UNCHANGED <<chains, q, mc, tk, g>>

NextPools ==
  \/ FetchPoolIDsFromFactory
  \/ QueryFilterSettles([ok |-> FALSE])
  \* 0, 1, 50, 51, 100 or 101 events; the events that carry args are among
  \* the first and the last of each batch
  \/ \E n \in {0, 1, batchSize, batchSize + 1, 2 * batchSize, 2 * batchSize + 1},
        withArgs \in SUBSET {1, batchSize, batchSize + 1, 2 * batchSize, 2 * batchSize + 1} :
       QueryFilterSettles([ok |-> TRUE, events |-> [i \in 1..n |-> i \in withArgs]])
  \/ /\ fo.pc = "pending"
     /\ \E i \in DOMAIN fo.pending : PoolBranchSettles(i, [ok |-> FALSE])
  \/ /\ fo.pc = "pending"
     /\ \E i \in DOMAIN fo.pending, active \in BOOLEAN :
          PoolBranchSettles(i, [ok |-> TRUE, active |-> active])

SpecPools == InitOneEndpoint /\ [][NextPools]_vars

(* Claims about fetchPoolIDsFromFactory *)

\* C25: whatever the number n of events, no event's branch is started twice,
\* and a batch holds at most 50 branches and starts only when every branch of
\* the batch before it has completed; when the function returns without a
\* query having raised, every event's branch has run once, and for n above 50
\* the loop has run ceil(n/50) batches.
C25_EveryEventOnce ==
  fo.pc \in {"pending", "returned"} =>
    LET n == Len(fo.events) IN
    /\ \A i \in 1..n : fo.started[i] <= 1
    /\ \A k \in DOMAIN fo.sizes : fo.sizes[k] <= 50
    /\ \A i \in 1..n : (fo.pc = "pending" /\ i > fo.endBatch) => fo.started[i] = 0
    /\ \A i \in DOMAIN fo.pending : fo.startBatch < i /\ i <= fo.endBatch
    /\ (fo.pc = "returned" /\ ~fo.raised) =>
         /\ \A i \in 1..n : fo.started[i] = 1
         /\ n > 50 => (Len(fo.sizes) * 50 >= n /\ (Len(fo.sizes) - 1) * 50 < n)

\* 101 events in three batches, the last of one event, which carries args
C25_Witness ==
  /\ fo.pc = "returned" /\ ~fo.raised
  /\ Len(fo.events) = 101 /\ fo.sizes = << 50, 50, 1 >>
  /\ fo.poolIDs = << 50, 1, 101 >>

====
